---- MODULE Spec2Model ----
(***************************************************************************)
(* A model of huidu-player: the TCP session's XML reassembly, the packet   *)
(* framing, the SDK command handlers with the shared device state and the  *)
(* player command queue, the player's tick (drain, render, rotate), the    *)
(* effect state machine and the brightness service.                        *)
(*                                                                         *)
(* The module holds several specifications over one set of variables; a    *)
(* specification leaves the variables of the other parts at their idle     *)
(* values.                                                                 *)
(*   Spec        the device: sessions' handlers, services, tasks, player   *)
(*   SpecXml     session.rs + the CMD_SDK_CMD_ASK arm of handle_connection *)
(*   SpecAcc     session.rs: accumulate_xml and xml_complete, any packets   *)
(*   SpecFrame   make_packet and the packet reader of handle_connection    *)
(*   SpecEffect  EffectState::update called at increasing times            *)
(*   SpecRot     the player's tick over many frames: program rotation      *)
(*   SpecArea    the engine's area states under loads and rotations        *)
(*   SpecBright  the brightness service, SetLuminancePloy and the player   *)
(***************************************************************************)
EXTENDS Integers, Sequences, FiniteSets, TLC

\* ------------------------------------------------------------------ bounds
\* longest XML command body (bytes) a modelled client sends
MaxXmlLen == 3
\* most chunks a modelled client cuts one XML command into
MaxChunks == 3
\* packet bodies on the wire are 0..MaxSmallBody bytes long, or within
\* FrameMargin bytes of the largest body the length check lets through
MaxSmallBody == 2
FrameMargin == 1
\* most packets written to the modelled connection
MaxPackets == 2
\* update(t) is called at times 0..MaxTimeSteps, in units of TimeStepMs
MaxTimeSteps == 12
\* frames rendered in a run of SpecRot: past the 300 frames of a program
\* with the default duration of 10 s
MaxRotFrames == 302
\* in SpecRot a LoadScreen arrives before this many frames were rendered
MaxLoadFrame == 2
\* entries of a brightness schedule
MaxSchedule == 2
\* commands waiting in the player's queue in SpecBright
MaxBrightQueue == 2
\* packets read and rounds of the background tasks begun in a run of Spec
MaxOps == 2
\* frames rendered in a run of Spec
MaxFrames == 1
\* frames rendered in a run of SpecArea: items of a tenth of a second go
\* round their list several times
MaxAreaFrames == 40

\* packets the client of SpecConn writes on its connection
MaxConnPackets == 4

\* packets the client of SpecMix writes on its connection
MaxMixPackets == 6

\* packets read and schedule rounds begun in a run of SpecLive
MaxLiveOps == 3

\* frames rendered in a run of SpecSink
MaxSinkFrames == 3

\* frames rendered in a run of SpecCursor
MaxCursorFrames == 4

\* files the program directory of SpecAnswer holds at most, and how many
\* it gains at a time
MaxFiles == 3000

FileStep == 100

\* packets read and rounds of the schedule task begun in a run of SpecSched
MaxSchedOps == 4

\* datagrams the beacon receives and broadcasts it begins in a run of
\* SpecBeacon
MaxDatagrams == 3

MaxBroadcasts == 2

\* restarts of the device in a run of SpecRestart
MaxRestarts == 1

\* pieces a colour string of SpecColor is put together from
MaxPieces == 4

\* scans of the mount points in SpecUsb
MaxScans == 4

\* ----------------------------------------------------------------- helpers
None == "none"

\* "no byte sequence", where a byte sequence is expected
NoBytes == <<-1>>

Min(a, b) == IF a <= b THEN a ELSE b

Max(a, b) == IF a >= b THEN a ELSE b

RECURSIVE Flatten(_)
Flatten(ss) == IF ss = <<>> THEN <<>> ELSE Head(ss) \o Flatten(Tail(ss))

\* sequences over S of length 0..n
SeqsUpTo(S, n) == UNION {[1..k -> S] : k \in 0..n}

VARIABLES
    \* --- one TCP session, byte level (protocol/session.rs) ---
    session,        \* [xml_buffer, xml_total_len] of Session
    last_complete,  \* xml_complete() after the latest accumulate_xml
    last_xml,       \* what take_xml returned for the latest packet, or NoBytes
    last_xml_str,   \* the string then handed to handle_sdk_command, or NoBytes
    last_pkt,       \* total, index and chunk of the latest packet, and whether
                    \* it met bytes in the buffer; NoChunk: a packet without
    last_acc,       \* the session as accumulate_xml left it for that packet
    cl_msg,         \* client: the XML command being sent (NoBytes: no command)
    cl_sent,        \* client: bytes of cl_msg sent so far
    cl_index,       \* client: index of the next chunk
    cl_done         \* client: the server has dispatched cl_msg

xmlVars == <<session, last_complete, last_xml, last_xml_str, last_pkt, last_acc,
             cl_msg, cl_sent, cl_index, cl_done>>

VARIABLES
    \* --- one TCP stream, byte level (protocol/server.rs) ---
    wire,       \* bytes written to the stream and not yet read
    fr_open,    \* the reading loop of handle_connection is running
    fr_rx,      \* the (cmd, body) the reader decoded last, or NoPacket
    fr_tx,      \* the (cmd, body) that packet was encoded from, or NoPacket
    fr_queue,   \* the (cmd, body) of the packets in `wire`, oldest first
    fr_sync,    \* `wire` holds nothing but packets the encoder built
    fr_sent     \* packets written so far

frameVars == <<wire, fr_open, fr_rx, fr_tx, fr_queue, fr_sync, fr_sent>>

VARIABLES
    \* --- one effect state (render/effects.rs) ---
    eff,        \* the EffectState
    eff_t,      \* the time of the latest update call, in TimeStepMs; -1: none
    eff_ret     \* what the latest update call returned

effVars == <<eff, eff_t, eff_ret>>

VARIABLES
    \* --- the player and its command queue (core/player.rs) ---
    player,       \* the Player, its RenderEngine and run()'s frames_rendered
    queue,        \* the mpsc channel of PlayerCommand, oldest first
    drained,      \* the commands the latest tick took from the queue, in order
    after_drain,  \* the player as the latest tick's drain left it
    last_render   \* what the latest tick rendered: [rendered, cursor, shown]

playerVars == <<player, queue, drained, after_drain, last_render>>

VARIABLES
    \* --- ServicesState (services/manager.rs) ---
    brightness    \* BrightnessService: [current_level, schedule]

svcVars == <<brightness>>

VARIABLES
    \* --- the device: connections, services, background tasks ---
    pc,               \* per session, where its handle_connection stands
    hdr,              \* per session, the length field it read last
    pending,          \* per session, the SDK command its handler works on
    replies,          \* per session, the replies written to its stream
    storage,          \* the program directory: file name -> content
    screen_schedule,  \* ScreenScheduleService: [entries, last_state]
    rwlock,           \* who holds the write lock of ServicesState
    sched,            \* ScreenScheduleService::run: [pc, should_on], with
                      \* the value it sent last (`emitted`) and whether
                      \* set_schedule ran since it sent it (`replaced`)
    usb,              \* UsbDiskService::run: [pc, last_seen]
    sent_n,           \* per source, the commands it has sent to the player
    applied_n,        \* per source, the commands the player has applied
    ops,              \* packets read and task rounds begun
    c7,               \* an AddProgram then DeleteProgram of one session
    session_guid,     \* per session, the guid Session::new drew for it
    boots,            \* how often the device was started again
    readers           \* the sessions that hold read access to ServicesState
                      \* across a storage operation

devVars ==
    <<pc, hdr, pending, replies, storage, screen_schedule, rwlock, sched, usb,
      sent_n, applied_n, ops, c7, session_guid, boots, readers>>

VARIABLES
    \* --- one connection, byte level, with the file system it writes to ---
    c_wire,     \* bytes the client wrote and handle_connection has not read
    c_open,     \* the loop of handle_connection is running
    c_resp,     \* the response built for the packet read last and not yet
                \* written to the stream, or NoBytes
    c_out,      \* the responses written to the stream: how many, and the
                \* bytes of the latest (NoBytes: none yet)
    c_ft,       \* session.file_transfer, or NoTransfer
    c_fs,       \* the file system: path -> content, NoBytes where no file is
    c_last,     \* the command word of the packet read last, or -1
    c_log,      \* client: how many packets it has written, and the bytes
                \* of the only one while there is only one
    c_hist,     \* the FILE_START_ASK read last that declared a transfer, and
                \* the FILE_CONTENT_ASK bodies read since, or NoDecl
    c_end,      \* what the FILE_END_ASK did, while the packet read last
                \* is one that met a transfer, or NoEnd
    c_ends      \* FILE_END_ASK packets read so far

connVars == <<c_wire, c_open, c_resp, c_out, c_ft, c_fs, c_last, c_log, c_hist,
              c_end, c_ends>>

VARIABLES
    \* --- the answers to GetFiles and the packets they travel in ---
    listing,    \* files in the program directory, each name NameLen bytes
    answer      \* the packet written last: the length field of its header
                \* and the bytes that follow the header, or NoAnswer

ansVars == <<listing, answer>>

VARIABLES
    \* --- the discovery beacon (protocol/discovery.rs) ---
    u_pc,       \* where run stands: "select", or in the sleep between the
                \* two sends of a "reply" or of a "broadcast"
    u_len,      \* the len recv_from returned last, -1 after another turn
    u_peer,     \* the peer recv_from returned last, or None
    u_log,      \* the send_to calls made since select! last completed
    u_n,        \* datagrams received
    u_ticks     \* broadcasts begun

udpVars == <<u_pc, u_len, u_peer, u_log, u_n, u_ticks>>

VARIABLES
    \* --- a colour attribute and what parse_color makes of it ---
    color,      \* the string, as its UTF-8 bytes, and the pieces it was put
                \* together from: [bytes, pieces]
    rgb         \* parse_color(color): <<r, g, b>>, Panicked, or NoRgb
                \* before the call

colorVars == <<color, rgb>>

VARIABLES
    \* --- the removable-media watcher (services/usb_disk.rs) ---
    w_pc,         \* where run stands: "sleep" between two scans, "loop" in
                  \* the for loop over usb_paths
    w_present,    \* the mount paths that hold an XML file now
    w_paths,      \* usb_paths of the scan under way or done last
    w_todo,       \* the paths of usb_paths the for loop has yet to visit
    w_last_seen,  \* last_seen: a path, or None
    w_loads,      \* per path, the loads (copy and LoadScreen) since the latest
                  \* scan that did not find it
    w_scans       \* scans begun

watchVars == <<w_pc, w_present, w_paths, w_todo, w_last_seen, w_loads, w_scans>>

VARIABLES
    \* --- the network around the beacon's socket ---
    u_back      \* the datagrams the beacon sent that are on their way to
                \* its own socket, oldest first

backVars == <<u_back>>

VARIABLES
    \* --- Player::run and its pixel sink ---
    k_mode,     \* config.output_mode: "png", "raw" or "framebuffer"
    k_running,  \* run has not returned
    k_writes,   \* frames handed to the sink: save_png or write_all calls
    k_failed    \* calls among them that returned Err

sinkVars == <<k_mode, k_running, k_writes, k_failed>>

vars ==
    <<xmlVars, frameVars, effVars, playerVars, svcVars, devVars, connVars,
      ansVars, udpVars, colorVars, watchVars, backVars, sinkVars>>

\* what an action of one part leaves alone
XmlOnly ==
    UNCHANGED <<frameVars, effVars, playerVars, svcVars, devVars, connVars, ansVars, udpVars, colorVars, watchVars, backVars, sinkVars>>

FrameOnly ==
    UNCHANGED <<xmlVars, effVars, playerVars, svcVars, devVars, connVars, ansVars, udpVars, colorVars, watchVars, backVars, sinkVars>>

EffectOnly ==
    UNCHANGED <<xmlVars, frameVars, playerVars, svcVars, devVars, connVars, ansVars, udpVars, colorVars, watchVars, backVars, sinkVars>>

RotOnly ==
    UNCHANGED <<xmlVars, frameVars, effVars, svcVars, devVars, connVars, ansVars, udpVars, colorVars, watchVars, backVars, sinkVars>>

BrightOnly ==
    UNCHANGED <<xmlVars, frameVars, effVars, devVars, connVars, ansVars, udpVars, colorVars, watchVars, backVars, sinkVars>>

\* no handler assigns session.guid
DevOnly ==
    UNCHANGED <<xmlVars, frameVars, effVars, connVars, ansVars, udpVars, session_guid, boots, readers, colorVars, watchVars, backVars, sinkVars>>

BootOnly ==
    UNCHANGED <<xmlVars, frameVars, effVars, connVars, ansVars, udpVars, session_guid, readers, colorVars, watchVars, backVars, sinkVars>>

LockOnly ==
    UNCHANGED <<xmlVars, frameVars, effVars, connVars, ansVars, udpVars, session_guid, boots, colorVars, watchVars, backVars, sinkVars>>

ConnOnly ==
    UNCHANGED <<xmlVars, frameVars, effVars, playerVars, svcVars, devVars, ansVars, udpVars, colorVars, watchVars, backVars, sinkVars>>

AnsOnly ==
    UNCHANGED <<xmlVars, frameVars, effVars, playerVars, svcVars, devVars, connVars, udpVars, colorVars, watchVars, backVars, sinkVars>>

UdpOnly ==
    UNCHANGED <<xmlVars, frameVars, effVars, playerVars,
                svcVars, devVars, connVars, ansVars, colorVars, watchVars, backVars, sinkVars>>

ColorOnly ==
    UNCHANGED <<xmlVars, frameVars, effVars, playerVars,
                svcVars, devVars, connVars, ansVars, udpVars, watchVars, backVars, sinkVars>>

\* handle_connection works on its stream, its Session and the file system
ConnSessionOnly ==
    /\ UNCHANGED <<frameVars, effVars, playerVars, svcVars, devVars, ansVars,
                   udpVars, colorVars, watchVars, backVars, sinkVars>>
    /\ UNCHANGED <<last_pkt, last_acc, cl_msg, cl_sent, cl_index, cl_done>>

WatchOnly ==
    UNCHANGED <<xmlVars, frameVars, effVars, playerVars,
                svcVars, devVars, connVars, ansVars, udpVars, colorVars,
                backVars, sinkVars>>

\* the beacon and the datagrams on their way to its socket
BackOnly ==
    UNCHANGED <<xmlVars, frameVars, effVars, playerVars, svcVars, devVars,
                connVars, ansVars, colorVars, watchVars, sinkVars>>

\* Player::run and its pixel sink
SinkOnly ==
    UNCHANGED <<xmlVars, frameVars, effVars, svcVars, devVars, connVars,
                ansVars, udpVars, colorVars, watchVars, backVars>>

\* ------------------------------------------------- little-endian integers
\* WriteBytesExt::write_u16::<LittleEndian> / write_u32::<LittleEndian>
LE16(n) == <<n % 256, (n \div 256) % 256>>

LE32(n) == <<n % 256, (n \div 256) % 256, (n \div 65536) % 256, (n \div 16777216) % 256>>

\* write_u64::<LittleEndian>, of a number below 2^31
LE64(n) == LE32(n) \o <<0, 0, 0, 0>>

\* ReadBytesExt::read_u16 / read_u32::<LittleEndian> at 1-based offset o
ReadU16LE(b, o) == b[o] + 256 * b[o + 1]

ReadU32LE(b, o) == b[o] + 256 * b[o + 1] + 65536 * b[o + 2] + 16777216 * b[o + 3]

\* read_u64::<LittleEndian>, of eight bytes whose upper four are zero, as
\* they are in every packet of the model
ReadU64LE(b, o) == ReadU32LE(b, o)

\* ------------------------------------------------------------ session.rs
\* the bytes a modelled XML command is made of: the ASCII letter 'A' and
\* 0xFF, a byte no UTF-8 text contains
XmlBytes == {65, 255}

\* Session::new
SessionNew == [xml_buffer |-> <<>>, xml_total_len |-> 0]

\* Session::accumulate_xml
accumulate_xml_keep(s, chunk, total_len, index) ==
    [xml_buffer |-> s.xml_buffer \o chunk,
     xml_total_len |-> IF index = 0 THEN total_len ELSE s.xml_total_len]

accumulate_xml(s, chunk, total_len, index) ==
    [xml_buffer |-> (IF index = 0 THEN <<>> ELSE s.xml_buffer) \o chunk,
     xml_total_len |-> IF index = 0 THEN total_len ELSE s.xml_total_len]

\* Session::xml_complete
xml_complete_strict(s) == Len(s.xml_buffer) > s.xml_total_len

xml_complete(s) == Len(s.xml_buffer) >= s.xml_total_len

\* Session::take_xml: the bytes returned, and the session left behind
take_xml_bytes(s) == s.xml_buffer

take_xml(s) == [xml_buffer |-> <<>>, xml_total_len |-> 0]

\* String::from_utf8_lossy on the modelled bytes: 0xFF is no UTF-8 and
\* becomes U+FFFD (EF BF BD); ASCII is kept
RECURSIVE from_utf8_lossy(_)
from_utf8_lossy(b) ==
    IF b = <<>> THEN <<>>
    ELSE (IF Head(b) = 255 THEN <<239, 191, 189>> ELSE <<Head(b)>>)
         \o from_utf8_lossy(Tail(b))

\* no total, index and chunk: the packet body was shorter than 8 bytes
NoChunk == [total |-> -1, index |-> -1, chunk |-> <<>>, dirty |-> FALSE]

\* handle_connection, CMD_SDK_CMD_ASK arm, on a packet body `buf`:
\* [total:u32 LE][index:u32 LE][xml chunk]
HandleSdkCmdAsk(buf) ==
    IF Len(buf) >= 8
    THEN LET total_len == ReadU32LE(buf, 1)
             index     == ReadU32LE(buf, 5)
             xml_chunk == SubSeq(buf, 9, Len(buf))
             acc       == accumulate_xml(session, xml_chunk, total_len, index)
         IN  /\ last_complete' = xml_complete(acc)
             /\ IF xml_complete(acc)
                THEN /\ session' = take_xml(acc)
                     /\ last_xml' = take_xml_bytes(acc)
                     /\ last_xml_str' = from_utf8_lossy(take_xml_bytes(acc))
                ELSE /\ session' = acc
                     /\ last_xml' = NoBytes
                     /\ last_xml_str' = NoBytes
    ELSE /\ last_xml' = NoBytes
         /\ last_xml_str' = NoBytes
         /\ UNCHANGED <<session, last_complete>>

\* ------------------------------------------------- server.rs: framing
\* const MAX_PACKET_SIZE: usize = 9 * 1024
MAX_PACKET_SIZE == 9 * 1024

\* `x as u16`
AsU16(x) == x % 65536

NoPacket == [cmd |-> -1, body |-> <<>>]

\* make_packet: [length: u16 LE][command: u16 LE][data...]
make_packet_no_cmd_len(cmd, data) == LE16(AsU16(Len(data))) \o LE16(cmd) \o data

make_packet(cmd, data) == LE16(AsU16(Len(data) + 2)) \o LE16(cmd) \o data

\* handle_connection: the check of the length field
LengthOkLax(length) == ~(length > MAX_PACKET_SIZE)

LengthOk(length) == ~(length < 2 \/ length > MAX_PACKET_SIZE)

\* handle_connection: bytes of body that follow the command word
DataLenWhole(length) == length

DataLen(length) == length - 2

\* ------------------------------------------------------------ effects.rs
\* f32 progress, kept as the fraction <<n, d>> it was computed from; the
\* durations divided by are at most 3000, so the f32 quotient is >= 1.0
\* exactly when n >= d
ProgressZero == <<0, 1>>

ProgressOne == <<1, 1>>

\* (elapsed_in_phase as f32 / dur as f32).min(1.0)
ProgressOf(elapsed_in_phase, dur) ==
    IF elapsed_in_phase >= dur THEN ProgressOne ELSE <<elapsed_in_phase, dur>>

ProgressGeOne(pr) == pr[1] >= pr[2]

\* EffectState::new
EffectStateNew(effect_in, effect_out, in_speed, out_speed, duration_tenths) ==
    [current_index       |-> 0,
     phase               |-> "Entering",
     progress            |-> ProgressZero,
     phase_start_ms      |-> 0,
     display_duration_ms |-> duration_tenths * 100,
     effect_in           |-> effect_in,
     effect_out          |-> effect_out,
     in_speed            |-> in_speed,
     out_speed           |-> out_speed]

\* EffectState::transition_duration_ms
transition_duration_ms(speed) ==
    CASE speed = 0 -> 0
      [] speed = 1 -> 200
      [] speed = 2 -> 400
      [] speed = 3 -> 600
      [] speed = 4 -> 800
      [] speed = 5 -> 1000
      [] speed = 6 -> 1500
      [] speed = 7 -> 2000
      [] speed = 8 -> 3000
      [] OTHER -> 500

\* u64::saturating_sub
saturating_sub(a, b) == IF a >= b THEN a - b ELSE 0

\* EffectState::update: the state it leaves and the value it returns
update_match(e, elapsed_ms) ==

    CASE e.phase = "Entering" ->
           LET dur == transition_duration_ms(e.in_speed)
               elapsed_in_phase == saturating_sub(elapsed_ms, e.phase_start_ms)
               pr == ProgressOf(elapsed_in_phase, dur)
           IN  IF dur = 0 \/ e.effect_in = 0
               THEN [state |-> [e EXCEPT !.progress = ProgressOne,
                                         !.phase = "Displaying",
                                         !.phase_start_ms = elapsed_ms],
                     advance |-> FALSE]
               ELSE IF ProgressGeOne(pr)
               THEN [state |-> [e EXCEPT !.progress = pr,
                                         !.phase = "Displaying",
                                         !.phase_start_ms = elapsed_ms],
                     advance |-> FALSE]
               ELSE [state |-> [e EXCEPT !.progress = pr], advance |-> FALSE]
      [] e.phase = "Displaying" ->
           LET elapsed_in_phase == saturating_sub(elapsed_ms, e.phase_start_ms)
           IN  IF e.display_duration_ms = 0
               THEN [state |-> e, advance |-> FALSE]
               ELSE IF elapsed_in_phase >= e.display_duration_ms
               THEN [state |-> [e EXCEPT !.phase = "Exiting",
                                         !.phase_start_ms = elapsed_ms,
                                         !.progress = ProgressZero],
                     advance |-> FALSE]
               ELSE [state |-> e, advance |-> FALSE]
      [] e.phase = "Exiting" ->
           LET dur == transition_duration_ms(e.out_speed)
               elapsed_in_phase == saturating_sub(elapsed_ms, e.phase_start_ms)
               pr == ProgressOf(elapsed_in_phase, dur)
           IN  IF dur = 0 \/ e.effect_out = 0
               THEN [state |-> [e EXCEPT !.progress = ProgressOne, !.phase = "Done"],
                     advance |-> TRUE]
               ELSE IF ProgressGeOne(pr)
               THEN [state |-> [e EXCEPT !.progress = pr, !.phase = "Done"],
                     advance |-> TRUE]
               ELSE [state |-> [e EXCEPT !.progress = pr], advance |-> FALSE]
      [] e.phase = "Done" -> [state |-> e, advance |-> TRUE]

\* as update, but a finished effect starts over
update_replay(e, elapsed_ms) ==
    IF e.phase = "Done"
    THEN [state |-> [e EXCEPT !.phase = "Entering", !.progress = ProgressZero,
                              !.phase_start_ms = elapsed_ms],
          advance |-> FALSE]
    ELSE update_match(e, elapsed_ms)

update(e, elapsed_ms) == update_match(e, elapsed_ms)

\* EffectState::reset
EffectResetKeepStart(e, effect_in, effect_out, in_speed, out_speed, duration_tenths, start_ms) ==
    [e EXCEPT !.phase = "Entering",
              !.progress = ProgressZero,
              !.display_duration_ms = duration_tenths * 100,
              !.effect_in = effect_in,
              !.effect_out = effect_out,
              !.in_speed = in_speed,
              !.out_speed = out_speed]

EffectReset(e, effect_in, effect_out, in_speed, out_speed, duration_tenths, start_ms) ==
    [e EXCEPT !.phase = "Entering",
              !.progress = ProgressZero,
              !.phase_start_ms = start_ms,
              !.display_duration_ms = duration_tenths * 100,
              !.effect_in = effect_in,
              !.effect_out = effect_out,
              !.in_speed = in_speed,
              !.out_speed = out_speed]

\* the order of the phases
PhaseRank(ph) ==
    CASE ph = "Entering" -> 0
      [] ph = "Displaying" -> 1
      [] ph = "Exiting" -> 2
      [] ph = "Done" -> 3

EffectIdle ==
    /\ eff = EffectStateNew(0, 0, 0, 0, 50)
    /\ eff_t = -1
    /\ eff_ret = FALSE

\* ------------------------------------------------------ program/model.rs
\* str::trim_start_matches('#')
RECURSIVE trim_start_hash(_)
trim_start_hash(s) ==
    IF s # <<>> /\ Head(s) = 35 THEN trim_start_hash(Tail(s)) ELSE s

\* str::is_char_boundary: i is 0, the length, or the index of a byte that
\* is no continuation byte of UTF-8
is_char_boundary(s, i) ==
    \/ i = 0
    \/ i = Len(s)
    \/ i < Len(s) /\ ~(s[i + 1] >= 128 /\ s[i + 1] <= 191)

\* char::to_digit(16), -1 for None
to_digit(b) ==
    CASE b >= 48 /\ b <= 57 -> b - 48
      [] b >= 65 /\ b <= 70 -> b - 55
      [] b >= 97 /\ b <= 102 -> b - 87
      [] OTHER -> -1

\* u8::from_str_radix(pair, 16) of a slice of two bytes, -1 for Err: a
\* leading '+' is taken as a sign
from_str_radix(pair) ==
    IF pair[1] = 43
    THEN to_digit(pair[2])
    ELSE IF to_digit(pair[1]) >= 0 /\ to_digit(pair[2]) >= 0
         THEN 16 * to_digit(pair[1]) + to_digit(pair[2])
         ELSE -1

\* Result::unwrap_or
unwrap_or(r, default) == IF r >= 0 THEN r ELSE default

\* a panic of the calling thread
Panicked == <<-2>>

NoRgb == <<-1>>

\* parse_color; &s[a..b] panics where a or b is no char boundary
parse_color(color_bytes) ==
    LET s == trim_start_hash(color_bytes)
    IN  IF Len(s) >= 6
        THEN IF \A i \in {2, 4, 6} : is_char_boundary(s, i)
             THEN << unwrap_or(from_str_radix(SubSeq(s, 1, 2)), 255),
                     unwrap_or(from_str_radix(SubSeq(s, 3, 4)), 0),
                     unwrap_or(from_str_radix(SubSeq(s, 5, 6)), 0) >>
             ELSE Panicked
        ELSE <<255, 0, 0>>

ColorIdle == color = [bytes |-> <<>>, pieces |-> 0] /\ rgb = NoRgb

\* mount paths: two drives whose program.xml parses, one whose XML does not
MountPaths == {"/mnt/usb/a", "/mnt/usb/b", "/media/usb/bad"}

Loadable(path) == path # "/media/usb/bad"

\* UsbDiskService::run before its first tick, no drive mounted
WatchIdle ==
    /\ w_pc = "sleep"
    /\ w_present = {}
    /\ w_paths = {}
    /\ w_todo = {}
    /\ w_last_seen = None
    /\ w_loads = [path \in MountPaths |-> 0]
    /\ w_scans = 0

\* no datagram is on its way back to the beacon
BackIdle == u_back = <<>>

\* the player started with a sink that takes no frame; run has not returned
SinkIdle ==
    /\ k_mode = "framebuffer"
    /\ k_running = TRUE
    /\ k_writes = 0
    /\ k_failed = 0

\* An item's <effect> element; `present` is FALSE where the item has none.
NoEffect ==
    [present |-> FALSE, effect_in |-> 0, effect_out |-> 0, in_speed |-> 0,
     out_speed |-> 0, duration |-> 50]

EffectOf(effect_in, effect_out, in_speed, out_speed, duration) ==
    [present |-> TRUE, effect_in |-> effect_in, effect_out |-> effect_out,
     in_speed |-> in_speed, out_speed |-> out_speed, duration |-> duration]

\* ContentItem: its kind and its effect
Item(kind, effect) == [kind |-> kind, effect |-> effect]

\* Area: its rectangle's size and resources.items
Area(width, height, items) == [width |-> width, height |-> height, items |-> items]

\* PlayControl.duration is "HH:MM:SS"; the model keeps the fields that
\* split(':') yields, each the number it reads as, or -1 where it is no u32.
\* A program without <playControl> has present = FALSE.
NoPlayControl == [present |-> FALSE, duration |-> <<>>]

PlayControl(parts) == [present |-> TRUE, duration |-> parts]

Program(guid, play_control, areas) ==
    [guid |-> guid, play_control |-> play_control, areas |-> areas]

\* Programs the model plays: they differ in their play durations and in
\* their areas.
D2 ==
    Program("two-seconds", PlayControl(<<0, 0, 2>>),
            <<Area(64, 32, <<Item("image", EffectOf(1, 1, 4, 4, 10)),
                             Item("text", NoEffect)>>)>>)

D3 ==
    Program("three-seconds", PlayControl(<<0, 0, 3>>),
            <<Area(64, 32, <<Item("text", NoEffect)>>),
              Area(0, 32, <<Item("image", NoEffect)>>)>>)

D0 ==
    Program("zero-seconds", PlayControl(<<0, 0, 0>>),
            <<Area(64, 32, <<Item("clock", NoEffect)>>)>>)

DNone == Program("no-play-control", NoPlayControl, <<>>)

DBad ==
    Program("minutes-unreadable", PlayControl(<<0, -1, 2>>),
            <<Area(64, 32, <<Item("image", EffectOf(0, 0, 0, 0, 20))>>)>>)

DShort ==
    Program("seconds-only", PlayControl(<<1>>),
            <<Area(64, 32, <<>>)>>)

\* ------------------------------------------------------- render/engine.rs
\* get_effect_for_item
get_effect_for_item(item) ==
    IF item.kind \in {"image", "text", "gif"} /\ item.effect.present
    THEN EffectStateNew(item.effect.effect_in, item.effect.effect_out,
                        item.effect.in_speed, item.effect.out_speed,
                        item.effect.duration)
    ELSE EffectStateNew(0, 0, 0, 0, 50)

\* RenderEngine::reset_for_program: the area states it builds
ResetStates(program) ==
    [i \in 1..Len(program.areas) |->
        [current_item |-> 0,
         effect |-> IF program.areas[i].items # <<>>
                    THEN get_effect_for_item(program.areas[i].items[1])
                    ELSE EffectStateNew(0, 0, 0, 0, 50)]]

reset_for_program(p, program) == [p EXCEPT !.area_states = ResetStates(program)]

\* RenderEngine::set_brightness
set_brightness(p, level) == [p EXCEPT !.engine_brightness = Min(level, 100)]

\* main.rs: the default of --fps
Fps == 30

\* RenderEngine::new: ms_per_frame
ms_per_frame == 1000 \div Fps

\* as RenderArea, but the item index is not wrapped at the end of the list
RenderAreaNoWrap(area, st, elapsed_ms) ==
    IF area.width = 0 \/ area.height = 0 \/ area.items = <<>>
    THEN st
    ELSE LET r == update(st.effect, elapsed_ms)
         IN  IF r.advance /\ Len(area.items) > 1
             THEN LET next == st.current_item + 1
                      e    == get_effect_for_item(area.items[1])
                  IN  [current_item |-> next,
                       effect |-> EffectReset(r.state, e.effect_in, e.effect_out,
                                              e.in_speed, e.out_speed,
                                              e.display_duration_ms \div 100,
                                              elapsed_ms)]
             ELSE [st EXCEPT !.effect = r.state]

\* RenderEngine::render_frame, one area: the area state it leaves
RenderArea(area, st, elapsed_ms) ==
    IF area.width = 0 \/ area.height = 0 \/ area.items = <<>>
    THEN st
    ELSE LET r == update(st.effect, elapsed_ms)
         IN  IF r.advance /\ Len(area.items) > 1
             THEN LET next == (st.current_item + 1) % Len(area.items)
                      e    == get_effect_for_item(area.items[next + 1])
                  IN  [current_item |-> next,
                       effect |-> EffectReset(r.state, e.effect_in, e.effect_out,
                                              e.in_speed, e.out_speed,
                                              e.display_duration_ms \div 100,
                                              elapsed_ms)]
             ELSE [st EXCEPT !.effect = r.state]

\* RenderEngine::render_frame
render_frame(p, program) ==
    LET elapsed_ms == p.engine_frame * ms_per_frame
        states == IF Len(p.area_states) # Len(program.areas)
                  THEN ResetStates(program)
                  ELSE p.area_states
    IN  [p EXCEPT !.area_states =
                      [i \in 1..Len(program.areas) |->
                          RenderArea(program.areas[i], states[i], elapsed_ms)],
                  !.engine_frame = p.engine_frame + 1]

\* -------------------------------------------------------- core/player.rs
\* mpsc::channel(64)
QUEUE_CAPACITY == 64

\* PlayerCommand, with the session that sent it and its number among the
\* commands of that session
LoadScreen(programs, src, seq) ==
    [kind |-> "LoadScreen", programs |-> programs, level |-> 0, on |-> FALSE,
     src |-> src, seq |-> seq, via |-> None]

SetBrightness(level, src, seq) ==
    [kind |-> "SetBrightness", programs |-> <<>>, level |-> level, on |-> FALSE,
     src |-> src, seq |-> seq, via |-> None]

\* the command as the handler of SDK method `method` sends it
Via(cmd, method) == [cmd EXCEPT !.via = method]

ScreenPower(on, src, seq) ==
    [kind |-> "ScreenPower", programs |-> <<>>, level |-> 0, on |-> on,
     src |-> src, seq |-> seq, via |-> None]

\* mpsc::Sender::send: the command joins the queue behind those waiting
EnqueueFront(q, cmd) == <<cmd>> \o q

Enqueue(q, cmd) == Append(q, cmd)

\* Player::new, RenderEngine::new, and frames_rendered of Player::run
PlayerNew ==
    [programs            |-> <<>>,
     current_program     |-> 0,
     program_start_frame |-> 0,
     screen_on           |-> TRUE,
     frames_rendered     |-> 0,
     area_states         |-> <<>>,
     engine_frame        |-> 0,
     engine_brightness   |-> 100]

\* Player::load_programs_from_dir, for a directory whose XML files parse to
\* `programs`
load_programs(p, programs) ==
    IF programs = <<>>
    THEN p
    ELSE reset_for_program([p EXCEPT !.programs = programs], programs[1])

\* Player::handle_command
handle_command(p, cmd, current_frame) ==
    CASE cmd.kind = "LoadScreen" ->
           LET q == [p EXCEPT !.programs = cmd.programs,
                              !.current_program = 0,
                              !.program_start_frame = current_frame]
           IN  IF q.programs # <<>> THEN reset_for_program(q, q.programs[1]) ELSE q
      [] cmd.kind = "SetBrightness" -> set_brightness(p, cmd.level)
      [] cmd.kind = "ScreenPower" -> [p EXCEPT !.screen_on = cmd.on]

\* parse_duration_secs: three fields that each read as a u32 (a field that
\* does not is -1 here).  The fields of the model are small, so that
\* h * 3600 + m * 60 + s stays inside u32 as the code computes it.
parse_duration_secs(parts) ==
    IF Len(parts) = 3 /\ \A i \in 1..3 : parts[i] >= 0
    THEN [ok |-> TRUE, secs |-> parts[1] * 3600 + parts[2] * 60 + parts[3]]
    ELSE [ok |-> FALSE, secs |-> 0]

\* check_program_rotation: duration_secs
duration_secs(program) ==
    IF program.play_control.present
    THEN LET r == parse_duration_secs(program.play_control.duration)
         IN  IF r.ok THEN r.secs ELSE 10
    ELSE 10

\* Player::check_program_rotation
RotationDueLate(elapsed, frames_per_program) == elapsed > frames_per_program

RotationDue(elapsed, frames_per_program) == elapsed >= frames_per_program

check_program_rotationPastEnd(p, current_frame) ==
    IF Len(p.programs) <= 1
    THEN p
    ELSE LET program == p.programs[p.current_program + 1]
             frames_per_program == duration_secs(program) * Fps
             elapsed == current_frame - p.program_start_frame
             next == p.current_program + 1
         IN  IF RotationDue(elapsed, frames_per_program) /\ next # p.current_program
             THEN [p EXCEPT !.current_program = next,
                            !.program_start_frame = current_frame]
             ELSE p

check_program_rotation(p, current_frame) ==
    IF Len(p.programs) <= 1
    THEN p
    ELSE LET program == p.programs[p.current_program + 1]
             frames_per_program == duration_secs(program) * Fps
             elapsed == current_frame - p.program_start_frame
             next == (p.current_program + 1) % Len(p.programs)
         IN  IF RotationDue(elapsed, frames_per_program) /\ next # p.current_program
             THEN reset_for_program([p EXCEPT !.current_program = next,
                                              !.program_start_frame = current_frame],
                                    p.programs[next + 1])
             ELSE p

\* Player::run, the drain: while let Ok(cmd) = try_recv() { handle_command };
\* the player that has handled the first command handles the rest
RECURSIVE DrainQueue(_, _)
DrainQueue(p, q) ==
    IF q = <<>> THEN p
    ELSE CHOOSE done \in
            { DrainQueue(handled, rest) :
                handled \in {handle_command(p, Head(q), p.frames_rendered)},
                rest \in {Tail(q)} } : TRUE

\* Player::run, the rest of a tick: render a frame if the screen is on and
\* there is a program, count it, check the rotation
ShouldRenderWhenOff(p) == p.programs # <<>>

ShouldRender(p) == p.screen_on /\ p.programs # <<>>

RenderTick(p) ==
    IF ShouldRender(p)
    THEN LET r == render_frame(p, p.programs[p.current_program + 1])
             n == p.frames_rendered + 1
         IN  check_program_rotation([r EXCEPT !.frames_rendered = n], n)
    ELSE p

\* Player::run, the drain: the commands one tick takes from the queue,
\* every one that is waiting
TakenToFirstLoad(q) ==
    IF \E i \in 1..Len(q) : q[i].kind = "LoadScreen"
    THEN SubSeq(q, 1, CHOOSE i \in 1..Len(q) :
                        /\ q[i].kind = "LoadScreen"
                        /\ \A j \in 1..(i - 1) : q[j].kind # "LoadScreen")
    ELSE q

Taken(q) == q

\* Player::run, one tick of the interval; `cap` bounds the frames rendered.
\* last_render.run counts the frames rendered since the program on show
\* became current: a LoadScreen and a rotation start the count anew.
Tick(cap) ==
    LET taken == Taken(queue)
        p1 == DrainQueue(player, taken)
        took_load == \E i \in 1..Len(taken) : taken[i].kind = "LoadScreen"
        run == IF took_load THEN 0 ELSE last_render.run
        loaded_at == IF took_load THEN p1.frames_rendered ELSE last_render.loaded_at
        p2 == RenderTick(p1)
        rotated == p2.current_program # p1.current_program
    IN  /\ ShouldRender(p1) => p1.frames_rendered < cap
        /\ queue' = SubSeq(queue, Len(taken) + 1, Len(queue))
        /\ drained' = taken
        /\ after_drain' = p1
        /\ player' = p2
        /\ last_render' =
              IF ShouldRender(p1)
              THEN [rendered |-> TRUE, cursor |-> p1.current_program,
                    shown |-> run + 1, rotated |-> rotated,
                    run |-> IF rotated THEN 0 ELSE run + 1,
                    loaded_at |-> loaded_at]
              ELSE [rendered |-> FALSE, cursor |-> p1.current_program,
                    shown |-> 0, rotated |-> FALSE, run |-> run,
                    loaded_at |-> loaded_at]

NoRender ==
    [rendered |-> FALSE, cursor |-> 0, shown |-> 0, rotated |-> FALSE, run |-> 0,
     loaded_at |-> 0]

PlayerIdle ==
    /\ player = PlayerNew
    /\ queue = <<>>
    /\ drained = <<>>
    /\ after_drain = PlayerNew
    /\ last_render = NoRender

\* -------------------------------------------------- services/brightness.rs
\* BrightnessService::new
BrightnessNew == [current_level |-> 100, schedule |-> <<>>]

\* BrightnessScheduleEntry: hour, minute and level are u8
ScheduleEntry(hour, minute, level) == [hour |-> hour, minute |-> minute, level |-> level]

\* BrightnessService::set_level
set_level(b, level) == [b EXCEPT !.current_level = Min(level, 100)]

\* BrightnessService::set_schedule
set_schedule(b, schedule) == [b EXCEPT !.schedule = schedule]

\* check_schedule: the entry the loop leaves in `best`, the last one that
\* is not after the current minute of the day; 0 if there is none
RECURSIVE BestEntry(_, _, _)
BestEntry(schedule, current_minutes, k) ==
    IF k = 0 THEN 0
    ELSE IF (schedule[k].hour * 60 + schedule[k].minute) % 65536 <= current_minutes
         THEN k
         ELSE BestEntry(schedule, current_minutes, k - 1)

\* BrightnessService::check_schedule, at minute `current_minutes` of the day
check_schedule(b, current_minutes) ==
    IF b.schedule = <<>>
    THEN b
    ELSE LET k == BestEntry(b.schedule, current_minutes, Len(b.schedule))
             entry == IF k = 0 THEN b.schedule[Len(b.schedule)] ELSE b.schedule[k]
         IN  IF entry.level # b.current_level
             THEN [b EXCEPT !.current_level = entry.level]
             ELSE b

SvcIdle == brightness = BrightnessNew

\* ----------------------------------------------------- program/parser.rs
\* SDK commands carry their XML as bytes.  The model knows four documents:
\* a screen of two programs, a screen of one program, the same with a byte
\* that is no UTF-8 inside a text, and a document without <screen>.
XmlScreenA == <<65>>

XmlScreenB == <<66>>

XmlScreenB8 == <<66, 255>>

XmlBroken == <<88>>

\* parse_program_xml, of the string it is handed
parse_program_xml(xml) ==
    CASE xml = XmlScreenA -> [ok |-> TRUE, programs |-> <<D0, D2>>]
      [] xml = XmlScreenB -> [ok |-> TRUE, programs |-> <<D3>>]
      [] xml = from_utf8_lossy(XmlScreenB8) -> [ok |-> TRUE, programs |-> <<D3>>]
      [] OTHER -> [ok |-> FALSE, programs |-> <<>>]

\* parse_program_file: read_to_string, which fails on a missing file and on
\* bytes that are no UTF-8, then parse_program_xml
parse_program_file(content) ==
    IF content = NoBytes \/ from_utf8_lossy(content) # content
    THEN [ok |-> FALSE, programs |-> <<>>]
    ELSE parse_program_xml(content)

\* ----------------------------------------------------- services/storage.rs
\* The program directory holds regular files only.
FileNames == {"current_program.xml", "program.xml", "logo.png"}

EmptyDir == [f \in FileNames |-> NoBytes]

StockedDir ==
    [EmptyDir EXCEPT !["current_program.xml"] = XmlScreenB, !["logo.png"] = <<80>>]

Existing(st) == {f \in FileNames : st[f] # NoBytes}

\* StorageService::save_program; where fs::write fails the file is left
\* as it was
save_program_nowhere(st, xml, io_ok) == st

save_program(st, xml, io_ok) ==
    IF io_ok THEN [st EXCEPT !["current_program.xml"] = xml] ELSE st

\* StorageService::clear: the files it removes, all the regular files of
\* the directory but those in `kept`, which it did not reach because a
\* remove_file before them failed
ClearedProgramOnly(st, kept) == (Existing(st) \ kept) \cap {"current_program.xml"}

Cleared(st, kept) == Existing(st) \ kept

clear(st, kept) ==
    [f \in FileNames |-> IF f \in Cleared(st, kept) THEN NoBytes ELSE st[f]]

\* StorageService::delete_file for each name of `names`: a file that is
\* there is removed, unless remove_file fails, as it does for those of
\* `failed`
delete_files(st, names, failed) ==
    [f \in FileNames |->
        IF (\E k \in 1..Len(names) : names[k] = f) /\ f \notin failed
        THEN NoBytes
        ELSE st[f]]

\* ---------------------------------------------- services/screen_schedule.rs
\* ScreenScheduleService::new
ScreenScheduleNew == [entries |-> <<>>, last_state |-> None]

\* ScreenScheduleEntry; on_time and off_time are "HH:MM:SS" strings that the
\* service compares as strings: the model keeps the hour of well-formed ones
SwitchEntry(on_time, off_time, days) ==
    [on_time |-> on_time, off_time |-> off_time, days |-> days]

\* ScreenScheduleService::set_schedule
screen_set_schedule(ss, entries) == [entries |-> entries, last_state |-> None]

\* ScreenScheduleService::run: last_state != Some(on)
EmitAlways(ss, on) == TRUE

StateChanged(ss, on) == ss.last_state # on

\* ScreenScheduleService::run before its first tick
SchedNew ==
    [pc |-> "idle", should_on |-> None, emitted |-> None, replaced |-> FALSE]

\* ScreenScheduleService::should_be_on at hour `now` of day `day`
should_be_on(ss, now, day) ==
    IF ss.entries = <<>> THEN None
    ELSE IF \E k \in 1..Len(ss.entries) :
               /\ ss.entries[k].days = {} \/ day \in ss.entries[k].days
               /\ now >= ss.entries[k].on_time
               /\ now < ss.entries[k].off_time
         THEN "on"
         ELSE "off"

\* --------------------------------- session.rs, server.rs: file transfer
\* const CMD_*: the command words
CMD_TCP_HEARTBEAT_ASK == 95

CMD_TCP_HEARTBEAT_ANSWER == 96

CMD_SDK_SERVICE_ASK == 8193

CMD_SDK_SERVICE_ANSWER == 8194

CMD_SDK_CMD_ASK == 8195

\* const TRANSPORT_VERSION: u32 = 0x0100_0005
TRANSPORT_VERSION == 16777221

CMD_FILE_START_ASK == 32769

CMD_FILE_START_ANSWER == 32770

CMD_FILE_CONTENT_ASK == 32771

CMD_FILE_END_ASK == 32773

CMD_FILE_END_ANSWER == 32774

\* session.file_transfer = None
NoTransfer == [filename |-> NoBytes, expected_size |-> -1, file_type |-> -1, data |-> <<>>]

\* Session::start_file_transfer
start_file_transfer(filename, size, file_type) ==
    [filename |-> filename, expected_size |-> size, file_type |-> file_type,
     data |-> <<>>]

\* Session::append_file_data
append_file_data_last(ft, data) ==
    IF ft # NoTransfer THEN [ft EXCEPT !.data = data] ELSE ft

append_file_data(ft, data) ==
    IF ft # NoTransfer THEN [ft EXCEPT !.data = @ \o data] ELSE ft

\* str::trim_end_matches('\0')
RECURSIVE trim_end_nul(_)
trim_end_nul(s) ==
    IF s # <<>> /\ s[Len(s)] = 0 THEN trim_end_nul(SubSeq(s, 1, Len(s) - 1)) ELSE s

\* the program directory's path, "d"
ProgramDir == <<100>>

\* Path::new(&program_dir).join(&transfer.filename): an absolute filename
\* replaces the directory, an empty one leaves it
JoinPath(dir, filename) ==
    IF filename = <<>> THEN dir
    ELSE IF filename[1] = 47 THEN filename
    ELSE dir \o <<47>> \o filename

\* `path` names a file that lies in the directory dir: dir, '/', and one
\* name that is not ".."
LiesIn(path, dir) ==
    /\ Len(path) > Len(dir) + 1
    /\ SubSeq(path, 1, Len(dir) + 1) = dir \o <<47>>
    /\ \A i \in (Len(dir) + 2)..Len(path) : path[i] # 47
    /\ SubSeq(path, Len(dir) + 2, Len(path)) # <<46, 46>>

\* the filename fields the modelled client declares: "l", "l" padded with
\* a NUL, "/l", a lone NUL, "../l"
DeclaredNames == { <<108>>, <<108, 0>>, <<47, 108>>, <<0>>, <<46, 46, 47, 108>> }

\* the paths the file system of the model knows
Paths == { JoinPath(ProgramDir, trim_end_nul(from_utf8_lossy(n))) : n \in DeclaredNames }

\* the directory exists and holds no file
FsEmpty == [q \in Paths |-> NoBytes]

\* std::fs::write(path, data): with ok, the file holds the data; failing, it
\* is left as it was, or was created and is empty.  The directory itself
\* cannot be written as a file.
FsWriteOutcomes(fs, path, data) ==
    IF path = ProgramDir
    THEN { [ok |-> FALSE, fs |-> fs] }
    ELSE { [ok |-> TRUE, fs |-> [fs EXCEPT ![path] = data]],
           [ok |-> FALSE, fs |-> fs],
           [ok |-> FALSE, fs |-> [fs EXCEPT ![path] = <<>>]] }

\* the err field of the FILE_END_ANSWER after a write that went `ok`
FileEndErrOfWrite(ok) == IF ok THEN 0 ELSE 1

FileEndErr(ok) == 0

NoDecl == [name |-> NoBytes, size |-> -1, sent |-> <<>>]

NoEnd ==
    [had |-> FALSE, name |-> NoBytes, path |-> NoBytes, size |-> -1, data |-> <<>>,
     sent |-> <<>>, wrote |-> FALSE, changed |-> FALSE, foreign |-> FALSE,
     answered |-> FALSE]

ConnIdle ==
    /\ c_wire = <<>>
    /\ c_open = TRUE
    /\ c_resp = NoBytes
    /\ c_out = [n |-> 0, last |-> NoBytes]
    /\ c_ft = NoTransfer
    /\ c_fs = FsEmpty
    /\ c_last = -1
    /\ c_log = [n |-> 0, only |-> NoBytes]
    /\ c_hist = NoDecl
    /\ c_end = NoEnd
    /\ c_ends = 0

\* --------------------------------------- server.rs, command.rs: answers
\* const CMD_SDK_CMD_ANSWER
CMD_SDK_CMD_ANSWER == 8196

\* the length in bytes of the names of the listed files, as "logo.png"
NameLen == 8

\* bytes of a text of n bytes; the claims on answers speak of lengths only
Filler(n) == [i \in 1..n |-> 32]

\* handle_sdk_command, GetFiles: the length of the reply XML for n files:
\* the declaration (38), <sdk guid="{guid}"> with a guid of 36 characters
\* (49), <out method="GetFiles"> (23), per file <file name="{f}"/> (15 and
\* the name), <result value="0"/> (19), </out></sdk> (12)
GetFilesReplyLen(n) == 38 + 49 + 23 + n * (15 + NameLen) + 19 + 12

\* handle_connection, Ok(response_xml): [xml length: u32 LE][0: u32 LE][xml]
\* in a CMD_SDK_CMD_ANSWER packet
SdkAnswerPacket(xml) == make_packet(CMD_SDK_CMD_ANSWER, LE32(Len(xml)) \o LE32(0) \o xml)

NoAnswer == [length |-> -1, size |-> -1]

\* a packet as it is written to the stream: its length field, and the
\* bytes in it after the command word
AnswerOf(packet) == [length |-> ReadU16LE(packet, 1), size |-> Len(packet) - 4]

AnsIdle == listing = 0 /\ answer = NoAnswer

\* ------------------------------------------------- protocol/discovery.rs
\* let mut buf = [0u8; 2048]
BufLen == 2048

\* build_device_info_packet, build_ext1_packet: built once, before the loop
dev_info_packet == "DeviceInfo"

ext1_packet == "Ext1"

broadcast_addr == "255.255.255.255:9527"

\* the address of the beacon's own socket as recv_from reports it for a
\* datagram the device sent: the device's address, port 9527
local_addr == "device:9527"

\* build_device_info_packet, build_ext1_packet: the 15 bytes of the device
\* id come first; then the address, the player's name with its NUL (one
\* byte for the shortest name) and the DeviceInfo XML, or the ext1 XML
ID_LEN == 15

DEVICE_INFO_XML_LEN == 157

EXT1_XML_LEN == 210

PacketLen(packet) ==
    IF packet = dev_info_packet
    THEN ID_LEN + 4 + 1 + DEVICE_INFO_XML_LEN
    ELSE ID_LEN + EXT1_XML_LEN

\* a datagram sent to the broadcast address or to the socket's own
\* address comes back to the socket, if send_to handed it to the network
ComesBack(back, sent) ==
    IF sent.ok /\ sent.to \in {broadcast_addr, local_addr}
    THEN Append(back, sent.packet)
    ELSE back

\* the hosts that send datagrams to the discovery port
Peers == {"p1", "p2"}

\* if len >= 2
ProbeAny(len) == TRUE

IsProbe(len) == len >= 2

\* socket.send_to(packet, to): `ok` is whether it returned Ok; an Err is
\* logged and run goes on
SendTo(packet, to, ok) == [packet |-> packet, to |-> to, ok |-> ok]

UdpIdle ==
    /\ u_pc = "select"
    /\ u_len = -1
    /\ u_peer = None
    /\ u_log = <<>>
    /\ u_n = 0
    /\ u_ticks = 0

\* ------------------------------------------------------ the device, idle
\* TCP sessions, and the background tasks that also send to the player
Sessions == {"s1", "s2"}

Tasks == {"schedule", "usb"}

Sources == Sessions \cup Tasks

\* no SDK command in work
NoPending ==
    [method |-> None, raw |-> NoBytes, xml |-> NoBytes, value |-> 0,
     entries |-> <<>>, ok |-> FALSE, programs |-> <<>>, stored |-> FALSE,
     written |-> NoBytes, enq |-> 0, result |-> 0, in_method |-> None,
     req_guid |-> None, guid |-> None, error |-> FALSE]

\* Uuid::new_v4().to_string(): the guids a session may be given
Guids == {"u1", "u2"}

SessionGuids == [s \in Sessions |-> IF s = "s1" THEN "u1" ELSE "u2"]

\* what the SDK calls the device state
DeviceState(files, programs, bright, schedules, screen_on) ==
    [files |-> files, programs |-> programs, brightness |-> bright,
     schedules |-> schedules, screen_on |-> screen_on]

NoC7 ==
    [stage |-> None, owner |-> None, cleared |-> FALSE,
     pre |-> DeviceState(EmptyDir, <<>>, BrightnessNew, <<>>, TRUE)]

DevIdle ==
    /\ pc = [s \in Sessions |-> "read"]
    /\ hdr = [s \in Sessions |-> -1]
    /\ pending = [s \in Sessions |-> NoPending]
    /\ replies = [s \in Sessions |-> <<>>]
    /\ storage = EmptyDir
    /\ screen_schedule = ScreenScheduleNew
    /\ rwlock = None
    /\ sched = SchedNew
    /\ usb = [pc |-> "idle", last_seen |-> FALSE]
    /\ sent_n = [src \in Sources |-> 0]
    /\ applied_n = [src \in Sources |-> 0]
    /\ ops = 0
    /\ c7 = NoC7
    /\ session_guid = SessionGuids
    /\ boots = 0
    /\ readers = {}

\* the same arm's reading of a packet body: total, index and chunk, and
\* whether bytes were buffered when it came
ChunkOf(buf) ==
    IF Len(buf) >= 8
    THEN [total |-> ReadU32LE(buf, 1), index |-> ReadU32LE(buf, 5),
          chunk |-> SubSeq(buf, 9, Len(buf)), dirty |-> session.xml_buffer # <<>>]
    ELSE NoChunk

\* the session as the arm's call of accumulate_xml leaves it
Accumulated(buf) ==
    IF Len(buf) >= 8
    THEN accumulate_xml(session, SubSeq(buf, 9, Len(buf)), ReadU32LE(buf, 1),
                        ReadU32LE(buf, 5))
    ELSE session

\* ---- the client of SpecXml
\* the client starts a new XML command (dropping one it was sending)
XmlBegin ==
    \E X \in SeqsUpTo(XmlBytes, MaxXmlLen) :
        /\ cl_msg' = X
        /\ cl_sent' = 0
        /\ cl_index' = 0
        /\ cl_done' = FALSE
        /\ UNCHANGED <<session, last_complete, last_xml, last_xml_str,
                       last_pkt, last_acc>>
        /\ XmlOnly

\* the client sends the next chunk of its command, n bytes long, with
\* total = |X| and index = the chunk's position; the last chunk it may send
\* carries what is left
XmlSendChunk ==
    /\ cl_msg # NoBytes
    /\ ~cl_done
    /\ cl_index < MaxChunks
    /\ \E n \in 0..(Len(cl_msg) - cl_sent) :
        /\ (cl_index = MaxChunks - 1) => (cl_sent + n = Len(cl_msg))
        /\ HandleSdkCmdAsk(LE32(Len(cl_msg)) \o LE32(cl_index)
                           \o SubSeq(cl_msg, cl_sent + 1, cl_sent + n))
        /\ cl_sent' = cl_sent + n
        /\ cl_index' = cl_index + 1
        /\ cl_done' = last_complete'
        /\ UNCHANGED <<cl_msg, last_pkt, last_acc>>
        /\ XmlOnly

\* a packet that follows no command in progress: any total, index and chunk,
\* or a body shorter than the 8-byte header
XmlStray ==
    \E body \in {LE32(total) : total \in 0..(MaxXmlLen + 1)}
                \cup {LE32(total) \o LE32(index) \o chunk :
                         total \in 0..(MaxXmlLen + 1), index \in 0..1,
                         chunk \in SeqsUpTo(XmlBytes, 2)} :
        /\ HandleSdkCmdAsk(body)
        /\ cl_msg' = NoBytes
        /\ cl_sent' = 0
        /\ cl_index' = 0
        /\ cl_done' = FALSE
        /\ UNCHANGED <<last_pkt, last_acc>>
        /\ XmlOnly

FrameIdle ==
    /\ wire = <<>>
    /\ fr_open = TRUE
    /\ fr_rx = NoPacket
    /\ fr_tx = NoPacket
    /\ fr_queue = <<>>
    /\ fr_sync = TRUE
    /\ fr_sent = 0

XmlIdle ==
    /\ session = SessionNew
    /\ last_complete = FALSE
    /\ last_xml = NoBytes
    /\ last_xml_str = NoBytes
    /\ last_pkt = NoChunk
    /\ last_acc = SessionNew
    /\ cl_msg = NoBytes
    /\ cl_sent = 0
    /\ cl_index = 0
    /\ cl_done = FALSE

XmlInit ==
    /\ XmlIdle /\ FrameIdle /\ ConnIdle /\ EffectIdle /\ PlayerIdle /\ SvcIdle /\ DevIdle
    /\ AnsIdle
    /\ UdpIdle
    /\ ColorIdle
    /\ WatchIdle
    /\ BackIdle
    /\ SinkIdle

NextXml == XmlBegin \/ XmlSendChunk \/ XmlStray

SpecXml == XmlInit /\ [][NextXml]_vars

\* C1: a command X cut into ordered chunks and fed with total = |X| and
\* index = i is complete exactly when the bytes fed reach |X|; take_xml then
\* returns X and leaves the buffer empty, and until then the buffer holds
\* the bytes fed so far.
C1_Reassembly ==
    (cl_msg # NoBytes /\ cl_index > 0) =>
        /\ last_complete <=> (cl_sent >= Len(cl_msg))
        /\ last_complete =>
              /\ last_xml = cl_msg
              /\ session.xml_buffer = <<>>
        /\ ~last_complete =>
              /\ last_xml = NoBytes
              /\ session.xml_buffer = SubSeq(cl_msg, 1, cl_sent)

\* a command of two bytes or more, fed in two chunks or more, over a
\* session that had bytes of an abandoned command buffered, is dispatched
C1_Witness ==
    /\ cl_msg # NoBytes
    /\ Len(cl_msg) >= 2
    /\ cl_index >= 2
    /\ cl_done
    /\ last_xml = cl_msg

\* ------------------------------------------------------------- SpecAcc
\* One session fed CMD_SDK_CMD_ASK packets of any total, index and chunk.
AccTotals == 0..(MaxXmlLen + 1)

AccBodies ==
    {LE32(total) : total \in AccTotals}
    \cup {LE32(total) \o LE32(index) \o chunk :
             total \in AccTotals, index \in 0..1, chunk \in SeqsUpTo(XmlBytes, 2)}

AccPacket ==
    \E body \in AccBodies :
        /\ HandleSdkCmdAsk(body)
        /\ last_pkt' = ChunkOf(body)
        /\ last_acc' = Accumulated(body)
        /\ UNCHANGED <<cl_msg, cl_sent, cl_index, cl_done>>
        /\ XmlOnly

NextAcc == AccPacket

SpecAcc == XmlInit /\ [][NextAcc]_vars

\* C12: xml_complete() is true exactly when the buffer holds at least the
\* recorded total of bytes, and a chunk with index 0 discards what was
\* buffered: after accumulate_xml(chunk, total, 0) the buffer is that chunk
\* and the recorded total is the declared one, whatever was buffered before.
C12_CompleteAndReset ==
    /\ xml_complete(session) <=> Len(session.xml_buffer) >= session.xml_total_len
    /\ last_pkt # NoChunk =>
          /\ last_complete <=> Len(last_acc.xml_buffer) >= last_acc.xml_total_len
          /\ last_pkt.index = 0 =>
                /\ last_acc.xml_buffer = last_pkt.chunk
                /\ last_acc.xml_total_len = last_pkt.total

\* a chunk with index 0 met a buffer that held bytes of an unfinished
\* command with another total, and did not complete its own command
C12_Witness ==
    /\ last_pkt # NoChunk
    /\ last_pkt.index = 0
    /\ last_pkt.dirty
    /\ last_pkt.chunk # <<>>
    /\ ~last_complete
    /\ session.xml_buffer = last_pkt.chunk
    /\ session.xml_total_len = last_pkt.total

\* C33: the SDK dispatcher is invoked only on bytes that began with an
\* index-0 chunk and are at least as many as that chunk declared; a chunk
\* with index > 0 that arrives at the start of a session or right after a
\* completed command, when nothing is buffered and no total is recorded, is
\* never dispatched as a command on its own
C33_NoStrayDispatch ==
    [][(/\ session = SessionNew
        /\ last_pkt' # NoChunk
        /\ last_pkt'.index > 0)
       => ~last_complete']_vars

\* the chunk "A" with index 1 and a declared total of 3 met an empty buffer
\* and was handed to the dispatcher as a command
C33_StrayDispatched ==
    /\ last_pkt # NoChunk
    /\ last_pkt.index = 1
    /\ last_pkt.total = 3
    /\ last_pkt.chunk = <<65>>
    /\ ~last_pkt.dirty
    /\ last_complete
    /\ last_xml = <<65>>
    /\ last_xml_str = <<65>>

\* ------------------------------------------------------------ SpecFrame
\* the command words on the modelled wire: the heartbeat request and the
\* largest u16
FrameCmds == {95, 65535}

\* a body of n bytes; its bytes differ from place to place and by `seed`
BodyOf(n, seed) == [i \in 1..n |-> (7 * i + seed) % 256]

\* the largest body the length check lets through
MaxBody == MAX_PACKET_SIZE - 2

\* the bodies written: short ones, and as a connection's first packet the
\* ones around the largest length
FrameBodies(first) ==
    {BodyOf(n, seed) : n \in 0..MaxSmallBody, seed \in {0, 1}}
    \cup (IF first
          THEN {BodyOf(n, 0) : n \in (MaxBody - FrameMargin)..(MaxBody + FrameMargin)}
          ELSE {})

\* a peer writes the packet make_packet builds from (cmd, body)
FrameSend ==
    /\ fr_open
    /\ fr_sent < MaxPackets
    /\ \E cmd \in FrameCmds, body \in FrameBodies(fr_sent = 0) :
        /\ wire' = wire \o make_packet(cmd, body)
        /\ fr_queue' = Append(fr_queue, [cmd |-> cmd, body |-> body])
        /\ fr_sent' = fr_sent + 1
        /\ UNCHANGED <<fr_open, fr_rx, fr_tx, fr_sync>>
        /\ FrameOnly

\* a peer writes a header of its own making, any length field, and k bytes
FrameSendRaw ==
    /\ fr_open
    /\ fr_sent = 0
    /\ \E length \in {0, 1, 2, 3, 4, MAX_PACKET_SIZE, MAX_PACKET_SIZE + 1, 65535},
          cmd \in {95, 65535}, k \in 0..MaxSmallBody :
        /\ wire' = LE16(length) \o LE16(cmd) \o BodyOf(k, 0)
        /\ fr_sync' = FALSE
        /\ fr_sent' = fr_sent + 1
        /\ UNCHANGED <<fr_open, fr_rx, fr_tx, fr_queue>>
        /\ FrameOnly

\* handle_connection reads one packet: the length, the length check, the
\* command word, the body. A read waits until its bytes are there.
FrameRead ==
    /\ fr_open
    /\ Len(wire) >= 2
    /\ FrameOnly
    /\ LET length == ReadU16LE(wire, 1)
       IN  IF ~LengthOk(length)
           THEN /\ fr_open' = FALSE
                /\ fr_rx' = NoPacket
                /\ fr_tx' = NoPacket
                /\ UNCHANGED <<wire, fr_queue, fr_sync, fr_sent>>
           ELSE /\ Len(wire) >= 4 + DataLen(length)
                /\ fr_rx' = [cmd  |-> ReadU16LE(wire, 3),
                             body |-> SubSeq(wire, 5, 4 + DataLen(length))]
                /\ wire' = SubSeq(wire, 5 + DataLen(length), Len(wire))
                /\ fr_tx' = IF fr_queue = <<>> THEN NoPacket ELSE Head(fr_queue)
                /\ fr_queue' = IF fr_queue = <<>> THEN <<>> ELSE Tail(fr_queue)
                /\ UNCHANGED <<fr_open, fr_sync, fr_sent>>

FrameInit ==
    /\ FrameIdle /\ XmlIdle /\ ConnIdle /\ EffectIdle /\ PlayerIdle /\ SvcIdle /\ DevIdle
    /\ AnsIdle
    /\ UdpIdle
    /\ ColorIdle
    /\ WatchIdle
    /\ BackIdle
    /\ SinkIdle

NextFrame == FrameSend \/ FrameSendRaw \/ FrameRead

SpecFrame == FrameInit /\ [][NextFrame]_vars

\* the bytes the encoder wrote for the packets in flight
RECURSIVE Encoded(_)
Encoded(q) ==
    IF q = <<>> THEN <<>> ELSE make_packet(Head(q).cmd, Head(q).body) \o Encoded(Tail(q))

\* C3: a packet make_packet builds from (cmd, body), |body| <= 9214, carries
\* the length |body| + 2, passes the length check, and the reader decodes
\* the same (cmd, body) from it, consuming the packet's bytes and no others.
C3_FramingRoundTrip ==
    fr_sync =>
        /\ (fr_queue # <<>> /\ Len(Head(fr_queue).body) <= 9214) =>
              /\ Len(wire) >= 4
              /\ ReadU16LE(wire, 1) = Len(Head(fr_queue).body) + 2
              /\ LengthOk(ReadU16LE(wire, 1))
        /\ (fr_tx # NoPacket /\ Len(fr_tx.body) <= 9214) =>
              /\ fr_rx = fr_tx
              /\ fr_open
              /\ wire = Encoded(fr_queue)

\* a body of the largest length, 9214 bytes, has been decoded, with a
\* second packet behind it still on the wire
C3_Witness ==
    /\ fr_sync
    /\ fr_tx # NoPacket
    /\ Len(fr_tx.body) = 9214
    /\ fr_rx = fr_tx
    /\ fr_queue # <<>>

\* ------------------------------------------------------------- SpecConn
\* the md5 field of a FILE_START_ASK: 32 characters '0'
Md5Field == [i \in 1..32 |-> 48]

\* the body of a FILE_START_ASK: [md5: 32][size: u64 LE][type: u16 LE][name]
FileStartBody(name, size) == Md5Field \o LE64(size) \o LE16(0) \o name

\* the FILE_START_ASK bodies the client writes: names with sizes, and one
\* body of 41 bytes, too short to declare anything
FileStartBodies ==
    {FileStartBody(name, 1) : name \in DeclaredNames}
    \cup {FileStartBody(<<108>>, size) : size \in {0, 2}}
    \cup {SubSeq(FileStartBody(<<>>, 1), 1, 41)}

\* the FILE_CONTENT_ASK bodies the client writes: none, one byte, and, as
\* the first content after a declaration, the largest body a packet holds
FileContentBodies(first) ==
    {<<>>, <<1>>, <<2>>} \cup (IF first THEN {BodyOf(MaxBody, 0)} ELSE {})

\* handle_connection has a whole packet, or a length it rejects, to read
ConnCanRead ==
    /\ Len(c_wire) >= 2
    /\ LET length == ReadU16LE(c_wire, 1)
       IN  LengthOk(length) => Len(c_wire) >= 4 + DataLen(length)

\* the client writes when the server has nothing left to do
ConnMaySend ==
    /\ c_open
    /\ c_log.n < MaxConnPackets
    /\ c_resp = NoBytes
    /\ ~ConnCanRead

ConnSent(bytes) ==
    /\ c_wire' = c_wire \o bytes
    /\ c_log' = [n |-> c_log.n + 1, only |-> IF c_log.n = 0 THEN bytes ELSE NoBytes]
    /\ UNCHANGED <<c_open, c_resp, c_out, c_ft, c_fs, c_last, c_hist, c_end, c_ends>>
    /\ ConnOnly

\* the client writes a heartbeat as make_packet frames it: 02 00 5F 00
ConnSendHeartbeat ==
    /\ ConnMaySend
    /\ ConnSent(make_packet(CMD_TCP_HEARTBEAT_ASK, <<>>))

\* the client opens with the four bytes 04 00 5F 00
ConnSendFour ==
    /\ ConnMaySend
    /\ c_log.n = 0
    /\ ConnSent(<<4, 0, 95, 0>>)

ConnSendFileStart ==
    /\ ConnMaySend
    /\ \E body \in FileStartBodies : ConnSent(make_packet(CMD_FILE_START_ASK, body))

ConnSendFileContent ==
    /\ ConnMaySend
    /\ \E body \in FileContentBodies(c_hist # NoDecl /\ c_hist.sent = <<>>) :
        ConnSent(make_packet(CMD_FILE_CONTENT_ASK, body))

ConnSendFileEnd ==
    /\ ConnMaySend
    /\ ConnSent(make_packet(CMD_FILE_END_ASK, <<>>))

\* handle_connection: match cmd
CommandArmNoService(cmd) ==
    CASE cmd = CMD_TCP_HEARTBEAT_ASK -> "heartbeat"
      [] cmd \in {CMD_SDK_SERVICE_ASK, CMD_SDK_CMD_ASK} -> "sdk"
      [] cmd = CMD_FILE_START_ASK -> "file_start"
      [] cmd = CMD_FILE_CONTENT_ASK -> "file_content"
      [] cmd = CMD_FILE_END_ASK -> "file_end"
      [] OTHER -> "unknown"

CommandArm(cmd) ==
    CASE cmd = CMD_TCP_HEARTBEAT_ASK -> "heartbeat"
      [] cmd = CMD_SDK_SERVICE_ASK -> "service"
      [] cmd = CMD_SDK_CMD_ASK -> "sdk"
      [] cmd = CMD_FILE_START_ASK -> "file_start"
      [] cmd = CMD_FILE_CONTENT_ASK -> "file_content"
      [] cmd = CMD_FILE_END_ASK -> "file_end"
      [] OTHER -> "unknown"

\* handle_sdk_command on a string without <in method=".."/>, as every string
\* over XmlBytes is: the catch-all arm's document, here its first tag
UnhandledReply(xml_str) == <<60, 115, 100, 107, 62>>

\* the CMD_SDK_CMD_ANSWER packet: [len: u32 LE][0: u32 LE][reply]
SdkAnswer(xml_str) ==
    make_packet(CMD_SDK_CMD_ANSWER,
                LE32(Len(UnhandledReply(xml_str))) \o LE32(0) \o UnhandledReply(xml_str))

\* handle_connection, one turn of the loop up to the response: the length,
\* the length check, the command word, the body, the match on the command.
\* A read waits until its bytes are there.
ConnRead ==
    /\ c_open
    /\ c_resp = NoBytes
    /\ ConnCanRead
    /\ ConnSessionOnly
    /\ UNCHANGED <<c_out, c_log>>
    /\ LET length   == ReadU16LE(c_wire, 1)
           data_len == DataLen(length)
           cmd      == ReadU16LE(c_wire, 3)
           buf      == SubSeq(c_wire, 5, 4 + data_len)
       IN  IF ~LengthOk(length)
           THEN /\ c_open' = FALSE
                /\ UNCHANGED <<c_wire, c_resp, c_ft, c_fs, c_last, c_hist, c_end, c_ends>>
                /\ UNCHANGED <<session, last_complete, last_xml, last_xml_str>>
           ELSE /\ c_wire' = SubSeq(c_wire, 5 + data_len, Len(c_wire))
                /\ c_last' = cmd
                /\ UNCHANGED c_open
                /\ CommandArm(cmd) # "sdk"
                   => UNCHANGED <<session, last_complete, last_xml, last_xml_str>>
                /\ CASE CommandArm(cmd) = "heartbeat" ->
                          /\ c_resp' = make_packet(CMD_TCP_HEARTBEAT_ANSWER, <<>>)
                          /\ c_end' = NoEnd
                          /\ UNCHANGED <<c_ft, c_fs, c_hist, c_ends>>
                     [] CommandArm(cmd) = "service" ->
                          /\ c_resp' = make_packet(CMD_SDK_SERVICE_ANSWER,
                                                   LE32(TRANSPORT_VERSION))
                          /\ c_end' = NoEnd
                          /\ UNCHANGED <<c_ft, c_fs, c_hist, c_ends>>
                     [] CommandArm(cmd) = "sdk" ->
                          /\ HandleSdkCmdAsk(buf)
                          /\ c_resp' = IF data_len >= 8 /\ last_complete'
                                       THEN SdkAnswer(last_xml_str')
                                       ELSE NoBytes
                          /\ c_end' = NoEnd
                          /\ UNCHANGED <<c_ft, c_fs, c_hist, c_ends>>
                     [] CommandArm(cmd) = "file_start" ->
                          (IF data_len >= 42
                           THEN LET file_size == ReadU64LE(buf, 33)
                                    file_type == ReadU16LE(buf, 41)
                                    filename_bytes == SubSeq(buf, 43, data_len)
                                    filename == trim_end_nul(from_utf8_lossy(filename_bytes))
                                IN  /\ c_ft' = start_file_transfer(filename, file_size, file_type)
                                    /\ c_hist' = [name |-> filename_bytes, size |-> file_size,
                                                  sent |-> <<>>]
                                    /\ c_resp' = make_packet(CMD_FILE_START_ANSWER,
                                                             LE32(0) \o LE64(0))
                                    /\ c_end' = NoEnd
                                    /\ UNCHANGED <<c_fs, c_ends>>
                           ELSE /\ c_resp' = NoBytes
                                /\ c_end' = NoEnd
                                /\ UNCHANGED <<c_ft, c_fs, c_hist, c_ends>>)
                     [] CommandArm(cmd) = "file_content" ->
                          /\ c_ft' = IF data_len > 0 THEN append_file_data(c_ft, buf) ELSE c_ft
                          /\ c_hist' = IF c_hist # NoDecl
                                       THEN [c_hist EXCEPT !.sent = @ \o buf]
                                       ELSE c_hist
                          /\ c_resp' = NoBytes
                          /\ c_end' = NoEnd
                          /\ UNCHANGED <<c_fs, c_ends>>
                     [] CommandArm(cmd) = "file_end" ->
                          /\ c_ends' = c_ends + 1
                          /\ c_ft' = NoTransfer
                          /\ c_hist' = NoDecl
                          /\ IF c_ft # NoTransfer
                             THEN LET dest_path == JoinPath(ProgramDir, c_ft.filename)
                                  IN  \E o \in FsWriteOutcomes(c_fs, dest_path, c_ft.data) :
                                        /\ c_fs' = o.fs
                                        /\ c_resp' = make_packet(CMD_FILE_END_ANSWER,
                                                                 LE32(FileEndErr(o.ok)))
                                        /\ c_end' = [had      |-> TRUE,
                                                     name     |-> c_hist.name,
                                                     path     |-> dest_path,
                                                     size     |-> c_hist.size,
                                                     data     |-> c_ft.data,
                                                     sent     |-> c_hist.sent,
                                                     wrote    |-> o.ok,
                                                     changed  |-> o.fs # c_fs,
                                                     foreign  |-> FALSE,
                                                     answered |-> FALSE]
                             ELSE /\ c_fs' = c_fs
                                  /\ c_resp' = make_packet(CMD_FILE_END_ANSWER,
                                                           LE32(FileEndErr(TRUE)))
                                  /\ c_end' = NoEnd
                     [] OTHER ->
                          /\ c_resp' = NoBytes
                          /\ c_end' = NoEnd
                          /\ UNCHANGED <<c_ft, c_fs, c_hist, c_ends>>

\* handle_connection, the end of the turn: stream.write_all(&resp)
ConnWrite ==
    /\ c_open
    /\ c_resp # NoBytes
    /\ c_out' = [n |-> c_out.n + 1, last |-> c_resp]
    /\ c_resp' = NoBytes
    /\ c_end' = IF c_last = CMD_FILE_END_ASK THEN [c_end EXCEPT !.answered = TRUE] ELSE c_end
    /\ UNCHANGED <<c_wire, c_open, c_ft, c_fs, c_last, c_log, c_hist, c_ends>>
    /\ ConnOnly

\* another connection's DeleteProgram: StorageService::clear removes the
\* files of the program directory; here, while a FILE_END_ANSWER waits to be
\* written
ConnForeignClear ==
    /\ c_open
    /\ c_resp # NoBytes
    /\ c_last = CMD_FILE_END_ASK
    /\ ~c_end.foreign
    /\ c_fs' = [q \in Paths |-> IF LiesIn(q, ProgramDir) THEN NoBytes ELSE c_fs[q]]
    /\ c_end' = [c_end EXCEPT !.foreign = TRUE]
    /\ UNCHANGED <<c_wire, c_open, c_resp, c_out, c_ft, c_last, c_log, c_hist, c_ends>>
    /\ ConnOnly

ConnInit ==
    /\ ConnIdle /\ XmlIdle /\ FrameIdle /\ EffectIdle /\ PlayerIdle /\ SvcIdle /\ DevIdle
    /\ AnsIdle
    /\ UdpIdle
    /\ ColorIdle
    /\ WatchIdle
    /\ BackIdle
    /\ SinkIdle

NextConn ==
    \/ ConnSendHeartbeat
    \/ ConnSendFour
    \/ ConnSendFileStart
    \/ ConnSendFileContent
    \/ ConnSendFileEnd
    \/ ConnRead
    \/ ConnWrite
    \/ ConnForeignClear

SpecConn == ConnInit /\ [][NextConn]_vars

\* the FILE_END_ANSWER of a transfer has just been written to the stream
AtEndAnswer == c_last = CMD_FILE_END_ASK /\ c_resp = NoBytes /\ c_end.answered

\* the content of the file named F that lies in the program directory, or
\* NoBytes where there is none
FileInDir(fs, F) ==
    LET q == ProgramDir \o <<47>> \o F
    IN  IF q \in Paths /\ LiesIn(q, ProgramDir) THEN fs[q] ELSE NoBytes

C14_TransferBounded ==
    c_ft # NoTransfer => Len(c_ft.data) <= c_ft.expected_size + MaxBody

\* the FILE_END_ANSWER carrying err = 0: 06 00 06 80 00 00 00 00
EndAnswerOk == <<6, 0, 6, 128, 0, 0, 0, 0>>

\* C15: every FILE_END_ASK is answered with FILE_END_ANSWER (0x8006) with
\* err = 0 and the connection stays open, also when the write fails, and
\* when no transfer is in flight, in which case no file is written
\* C37: every file that the end of a transfer writes lies directly in the
\* program directory, whatever filename FILE_START_ASK declared: one with
\* a path separator, with a ".." component, or an absolute path
C37_WrittenInsideDir ==
    (c_end.had /\ c_end.wrote /\ c_end.changed) => LiesIn(c_end.path, ProgramDir)

\* the transfer declared as "/l" has written the file /l
C37_AbsoluteWritten ==
    /\ c_end.had /\ c_end.wrote
    /\ c_end.name = <<47, 108>>
    /\ c_end.path = <<47, 108>>
    /\ c_end.data # <<>>
    /\ c_fs[<<47, 108>>] = c_end.data

\* the transfer declared as "../l" has written the file d/../l
C37_ParentWritten ==
    /\ c_end.had /\ c_end.wrote
    /\ c_end.name = <<46, 46, 47, 108>>
    /\ c_end.path = <<100, 47, 46, 46, 47, 108>>
    /\ c_end.data # <<>>
    /\ c_fs[c_end.path] = c_end.data

C15_EndAnswered ==
    /\ [][c_ends' = c_ends + 1
          => /\ c_last' = CMD_FILE_END_ASK
             /\ c_open'
             /\ c_resp' = EndAnswerOk
             /\ c_ft = NoTransfer => c_fs' = c_fs]_vars
    /\ []((c_last = CMD_FILE_END_ASK /\ c_resp = NoBytes) => c_out.last = EndAnswerOk)
    /\ [][(c_last = CMD_FILE_END_ASK /\ c_resp # NoBytes /\ c_resp' = NoBytes)
          => (c_open' /\ c_out' = [n |-> c_out.n + 1, last |-> EndAnswerOk])]_vars

C15_Witness ==
    /\ AtEndAnswer
    /\ c_end.had
    /\ ~c_end.wrote
    /\ c_out.last = EndAnswerOk
    /\ c_open
    /\ c_fs[ProgramDir \o <<47, 108>>] = NoBytes

\* the client has written nothing but `bytes`, and handle_connection has
\* done all it can with them
SentOnly(bytes) ==
    /\ c_log = [n |-> 1, only |-> bytes]
    /\ c_resp = NoBytes
    /\ ~ConnCanRead

\* C18 as stated: a client sends exactly the four bytes 04 00 5F 00 and the
\* server replies with the four bytes 02 00 60 00
C18_FourBytes ==
    SentOnly(<<4, 0, 95, 0>>) => c_out = [n |-> 1, last |-> <<2, 0, 96, 0>>]

\* C18, amended: the heartbeat answered with 02 00 60 00 is the four bytes
\* 02 00 5F 00, whose length counts the command word alone; after the four
\* bytes 04 00 5F 00 the server has replied nothing and waits for two
\* more bytes, the body that length 4 announces
C18_Heartbeat ==
    /\ SentOnly(<<2, 0, 95, 0>>)
       => (c_out = [n |-> 1, last |-> <<2, 0, 96, 0>>] /\ c_wire = <<>> /\ c_open)
    /\ c_log = [n |-> 1, only |-> <<4, 0, 95, 0>>]
       => (c_out.n = 0 /\ c_resp = NoBytes /\ c_wire = <<4, 0, 95, 0>> /\ ~ConnCanRead)

C18_Witness ==
    /\ SentOnly(<<2, 0, 95, 0>>)
    /\ c_out = [n |-> 1, last |-> <<2, 0, 96, 0>>]

\* -------------------------------------------------------------- SpecMix
\* One connection whose client sends an XML command in chunks and a file in
\* content packets, and between them heartbeats, version requests and
\* packets with command words the server does not know.

\* the XML commands of the client
MixCommands == { <<65, 255>>, <<65, 65, 255>> }

\* command words no arm matches: 0, an answer's word, the largest u16
UnknownCmds == {0, 8196, 65535}

\* bodies of the packets in between: none, and one that reads as the first
\* chunk of an XML command
MixBody == LE32(1) \o LE32(0) \o <<65>>

MixMaySend ==
    /\ c_open
    /\ c_log.n < MaxMixPackets
    /\ c_resp = NoBytes
    /\ ~ConnCanRead

MixSent(bytes) ==
    /\ c_wire' = c_wire \o bytes
    /\ c_log' = [n |-> c_log.n + 1, only |-> NoBytes]
    /\ UNCHANGED <<c_open, c_resp, c_out, c_ft, c_fs, c_last, c_hist, c_end, c_ends>>
    /\ UNCHANGED <<session, last_complete, last_xml, last_xml_str, last_pkt,
                   last_acc, cl_done>>
    /\ UNCHANGED <<frameVars, effVars, playerVars, svcVars, devVars, ansVars,
                   udpVars, colorVars, watchVars, backVars, sinkVars>>

\* the client sends the next chunk of its command, the first with index 0
MixSendChunk ==
    /\ MixMaySend
    /\ \E X \in MixCommands :
          /\ cl_msg \in {NoBytes, X}
          /\ cl_sent < Len(X)
          /\ \E n \in 1..(Len(X) - cl_sent) :
                /\ MixSent(make_packet(CMD_SDK_CMD_ASK,
                                       LE32(Len(X)) \o LE32(cl_index)
                                       \o SubSeq(X, cl_sent + 1, cl_sent + n)))
                /\ cl_msg' = X
                /\ cl_sent' = cl_sent + n
                /\ cl_index' = cl_index + 1

MixSendFileStart ==
    /\ MixMaySend
    /\ c_hist = NoDecl
    /\ MixSent(make_packet(CMD_FILE_START_ASK, FileStartBody(<<108>>, 2)))
    /\ UNCHANGED <<cl_msg, cl_sent, cl_index>>

MixSendFileContent ==
    /\ MixMaySend
    /\ c_hist # NoDecl
    /\ \E body \in {<<1>>, <<2>>} : MixSent(make_packet(CMD_FILE_CONTENT_ASK, body))
    /\ UNCHANGED <<cl_msg, cl_sent, cl_index>>

MixSendFileEnd ==
    /\ MixMaySend
    /\ c_hist # NoDecl
    /\ MixSent(make_packet(CMD_FILE_END_ASK, <<>>))
    /\ UNCHANGED <<cl_msg, cl_sent, cl_index>>

\* a heartbeat, a version request or a packet with an unknown command word
MixSendOther ==
    /\ MixMaySend
    /\ \E cmd \in {CMD_TCP_HEARTBEAT_ASK, CMD_SDK_SERVICE_ASK} \cup UnknownCmds :
          \E body \in {<<>>, MixBody} : MixSent(make_packet(cmd, body))
    /\ UNCHANGED <<cl_msg, cl_sent, cl_index>>

NextMix ==
    \/ MixSendChunk
    \/ MixSendFileStart
    \/ MixSendFileContent
    \/ MixSendFileEnd
    \/ MixSendOther
    \/ ConnRead
    \/ ConnWrite

SpecMix == ConnInit /\ [][NextMix]_vars

\* handle_connection has read a packet in this step
MixRead == Len(c_wire') < Len(c_wire)

\* the reassembly and the transfer are where the chunks and the content
\* packets read so far put them
MixInStep ==
    /\ (c_wire = <<>> /\ cl_msg # NoBytes) =>
          IF cl_sent = Len(cl_msg)
          THEN /\ last_xml = cl_msg
               /\ session.xml_buffer = <<>>
          ELSE /\ last_xml = NoBytes
               /\ session.xml_buffer = SubSeq(cl_msg, 1, cl_sent)
               /\ session.xml_total_len = Len(cl_msg)
    /\ c_ft # NoTransfer =>
          /\ c_hist # NoDecl
          /\ c_ft.data = c_hist.sent
          /\ c_ft.filename = trim_end_nul(from_utf8_lossy(c_hist.name))
    /\ (c_end # NoEnd /\ c_end.wrote) =>
          /\ c_end.data = c_end.sent
          /\ c_fs[c_end.path] = c_end.sent

\* C31: a packet with an unrecognized command code produces no reply and
\* leaves the connection open; it, and a heartbeat or version packet, also
\* in the middle of a chunked XML command or of a file transfer, leaves the
\* XML buffer, the recorded total and the transfer in flight as they were,
\* so that the reassembly and the transfer complete with the bytes sent
C31_OtherPacketsLeaveSession ==
    /\ [][MixRead =>
            LET cmd == ReadU16LE(c_wire, 3)
            IN  /\ cmd \notin {CMD_TCP_HEARTBEAT_ASK, CMD_SDK_SERVICE_ASK,
                                CMD_SDK_CMD_ASK, CMD_FILE_START_ASK,
                                CMD_FILE_CONTENT_ASK, CMD_FILE_END_ASK}
                   => /\ c_resp' = NoBytes
                      /\ c_out' = c_out
                /\ cmd \notin {CMD_SDK_CMD_ASK, CMD_FILE_START_ASK,
                                CMD_FILE_CONTENT_ASK, CMD_FILE_END_ASK}
                   => /\ c_open'
                      /\ session' = session
                      /\ c_ft' = c_ft
                      /\ c_fs' = c_fs]_vars
    /\ []MixInStep

\* a packet with the largest command word, its body like a first chunk, was
\* read while a command was half reassembled and a file half transferred
C31_Witness ==
    /\ c_last = 65535
    /\ c_wire = <<>>
    /\ c_log.n = 4
    /\ c_out.n = 1
    /\ c_resp = NoBytes
    /\ c_open
    /\ cl_msg # NoBytes
    /\ session.xml_buffer = <<65>>
    /\ session.xml_total_len = Len(cl_msg)
    /\ c_ft # NoTransfer
    /\ c_ft.data = <<2>>

\* the command and the file went through whole with such packets in between
C31_Completed ==
    /\ c_log.n = 6
    /\ c_out.n = 3
    /\ cl_msg = <<65, 255>>
    /\ cl_index = 2
    /\ last_xml = cl_msg
    /\ c_end # NoEnd
    /\ c_end.wrote
    /\ c_end.sent = <<1>>

\* ----------------------------------------------------------- SpecAnswer
\* files arrive in the program directory: file transfers, the USB copy
AnsAddFiles ==
    /\ listing + FileStep <= MaxFiles
    /\ listing' = listing + FileStep
    /\ UNCHANGED answer
    /\ AnsOnly

\* StorageService::clear
AnsClear ==
    /\ listing > 0
    /\ listing' = 0
    /\ UNCHANGED answer
    /\ AnsOnly

\* a GetFiles command is answered
AnsGetFiles ==
    /\ answer' = AnswerOf(SdkAnswerPacket(Filler(GetFilesReplyLen(listing))))
    /\ UNCHANGED listing
    /\ AnsOnly

\* the answers of fixed size: to a heartbeat, a FILE_START_ASK, a
\* FILE_END_ASK
AnsFixed ==
    /\ \E packet \in { make_packet(CMD_TCP_HEARTBEAT_ANSWER, <<>>),
                       make_packet(CMD_FILE_START_ANSWER, LE32(0) \o LE64(0)),
                       make_packet(CMD_FILE_END_ANSWER, LE32(FileEndErr(TRUE))) } :
          answer' = AnswerOf(packet)
    /\ UNCHANGED listing
    /\ AnsOnly

AnsInit ==
    /\ AnsIdle
    /\ UdpIdle
    /\ ColorIdle
    /\ WatchIdle
    /\ BackIdle
    /\ SinkIdle
    /\ XmlIdle /\ FrameIdle /\ ConnIdle /\ EffectIdle /\ PlayerIdle /\ SvcIdle /\ DevIdle

NextAnswer == AnsAddFiles \/ AnsClear \/ AnsGetFiles \/ AnsFixed

SpecAnswer == AnsInit /\ [][NextAnswer]_vars

\* C20: every packet the server sends has a length field equal to its
\* actual body size plus 2, and at most 9216, also an SDK_CMD_ANSWER whose
\* reply XML is long, as a GetFiles listing of many files
C20_AnswerLength ==
    answer # NoAnswer
    => (answer.length = answer.size + 2 /\ answer.length <= MAX_PACKET_SIZE)

\* ----------------------------------------------------------- SpecEffect
\* the unit of the times update is called at
TimeStepMs == 100

\* the effect parameters an effect state is made with: effect codes 0
\* (immediate) and 1, speeds 0 (instant), 1 (200 ms), 8 (3000 ms) and 9
\* (no known speed: 500 ms), display durations 0 (for ever), 2 and 50 tenths
EffectParams ==
    [effect_in : {0, 1}, effect_out : {0, 1}, in_speed : {0, 1, 8, 9},
     out_speed : {0, 1, 9}, duration : {0, 2, 50}]

EffectInit ==
    /\ XmlIdle
    /\ FrameIdle
    /\ ConnIdle
    /\ AnsIdle
    /\ UdpIdle
    /\ ColorIdle
    /\ WatchIdle
    /\ BackIdle
    /\ SinkIdle
    /\ PlayerIdle
    /\ SvcIdle
    /\ DevIdle
    /\ \E q \in EffectParams :
         eff = EffectStateNew(q.effect_in, q.effect_out, q.in_speed, q.out_speed, q.duration)
    /\ eff_t = -1
    /\ eff_ret = FALSE

\* update(t) at a time t later than the time of the call before
EffectUpdate ==
    /\ \E t \in (eff_t + 1)..MaxTimeSteps :
        LET r == update(eff, t * TimeStepMs)
        IN  /\ eff' = r.state
            /\ eff_ret' = r.advance
            /\ eff_t' = t
    /\ EffectOnly

NextEffect == EffectUpdate

SpecEffect == EffectInit /\ [][NextEffect]_vars

\* C8: with fixed effect parameters and no reset, update at strictly
\* increasing times never moves the phase to an earlier one of Entering,
\* Displaying, Exiting, Done, and once it has returned advance it returns
\* advance at every later call.
C8_PhaseMonotone ==
    [][/\ PhaseRank(eff'.phase) >= PhaseRank(eff.phase)
       /\ eff_ret => eff_ret']_vars

\* an effect with a timed entrance and a timed exit has gone through all
\* four phases and update has returned advance twice or more
C8_Witness ==
    /\ eff.phase = "Done"
    /\ eff_ret
    /\ eff.effect_in # 0 /\ eff.in_speed # 0
    /\ eff.effect_out # 0 /\ eff.out_speed # 0
    /\ eff.display_duration_ms # 0
    /\ eff_t * TimeStepMs > eff.phase_start_ms + transition_duration_ms(eff.out_speed)

\* ------------------------------------------------------------- SpecRot
\* The player alone, ticking through some hundred frames.
RotScreens ==
    { <<D2, D3>>, <<D0, D2>>, <<D0, D0>>, <<DBad, D2>>, <<D3, DNone, DShort>>, <<D2>> }

RotInit ==
    /\ XmlIdle
    /\ FrameIdle
    /\ ConnIdle
    /\ AnsIdle
    /\ UdpIdle
    /\ ColorIdle
    /\ WatchIdle
    /\ BackIdle
    /\ SinkIdle
    /\ EffectIdle
    /\ SvcIdle
    /\ DevIdle
    /\ \E screen \in RotScreens \cup {<<>>} :
          /\ player = load_programs(PlayerNew, screen)
          /\ after_drain = player
    /\ queue = <<>>
    /\ drained = <<>>
    /\ last_render = NoRender

RotTick == Tick(MaxRotFrames) /\ RotOnly

\* a LoadScreen arrives early in the run
RotLoad ==
    /\ player.frames_rendered < MaxLoadFrame
    /\ Len(queue) < 2
    /\ \E screen \in RotScreens :
          queue' = Enqueue(queue, LoadScreen(screen, "s1", 0))
    /\ UNCHANGED <<player, drained, after_drain, last_render>>
    /\ RotOnly

\* the screen is switched off or on
RotPower ==
    /\ queue = <<>>
    /\ \E on \in BOOLEAN : queue' = <<ScreenPower(on, "s1", 0)>>
    /\ UNCHANGED <<player, drained, after_drain, last_render>>
    /\ RotOnly

NextRot == RotTick \/ RotLoad \/ RotPower

SpecRot == RotInit /\ [][NextRot]_vars

\* frames for which the program shown by the latest tick is to be shown
FramesDue == duration_secs(after_drain.programs[last_render.cursor + 1]) * Fps

\* the latest tick rendered a frame of a list of two or more programs
RotCase == last_render.rendered /\ Len(after_drain.programs) >= 2

Waiting(kind) == {i \in 1..Len(queue) : queue[i].kind = kind}

Latest(S) == CHOOSE i \in S : \A j \in S : j <= i

\* what the commands waiting make of the switch and of the list
OnAfterQueue ==
    IF Waiting("ScreenPower") = {}
    THEN player.screen_on
    ELSE queue[Latest(Waiting("ScreenPower"))].on

ProgramsAfterQueue ==
    IF Waiting("LoadScreen") = {}
    THEN player.programs
    ELSE queue[Latest(Waiting("LoadScreen"))].programs

QuickItem(kind) == Item(kind, EffectOf(0, 0, 0, 0, 1))

\* one second; an area of three quick items, an area without items
Q3 ==
    Program("three-items", PlayControl(<<0, 0, 1>>),
            <<Area(64, 32, <<QuickItem("image"), QuickItem("text"), QuickItem("gif")>>),
              Area(64, 32, <<>>)>>)

\* no time at all; an area of one quick item
Q1 ==
    Program("one-item", PlayControl(<<0, 0, 0>>),
            <<Area(64, 32, <<QuickItem("text")>>)>>)

\* one second; two areas of two items, the second with timed transitions
Q2 ==
    Program("two-items", PlayControl(<<0, 0, 1>>),
            <<Area(64, 32, <<QuickItem("image"), QuickItem("clock")>>),
              Area(32, 32, <<Item("text", EffectOf(1, 1, 1, 1, 1)),
                            Item("image", NoEffect)>>)>>)

\* one second; one area of one quick item
QSolo ==
    Program("solo", PlayControl(<<0, 0, 1>>),
            <<Area(64, 32, <<QuickItem("image")>>)>>)

AreaScreens ==
    { <<Q3, Q1>>, <<Q1, Q3>>, <<Q3, Q2>>, <<Q2, Q1, Q3>>, <<Q3>>, <<Q2>>,
      <<QSolo>>, <<D3, DNone, DShort>>, <<>> }

AreaInit ==
    /\ XmlIdle
    /\ FrameIdle
    /\ ConnIdle
    /\ AnsIdle
    /\ UdpIdle
    /\ ColorIdle
    /\ WatchIdle
    /\ BackIdle
    /\ SinkIdle
    /\ EffectIdle
    /\ SvcIdle
    /\ DevIdle
    /\ \E screen \in AreaScreens :
          /\ player = load_programs(PlayerNew, screen)
          /\ after_drain = player
    /\ queue = <<>>
    /\ drained = <<>>
    /\ last_render = NoRender

AreaTick == Tick(MaxAreaFrames) /\ RotOnly

\* a LoadScreen arrives, at any frame
AreaLoad ==
    /\ queue = <<>>
    /\ player.frames_rendered < MaxAreaFrames
    /\ \E screen \in AreaScreens :
          queue' = Enqueue(queue, LoadScreen(screen, "s1", 0))
    /\ UNCHANGED <<player, drained, after_drain, last_render>>
    /\ RotOnly

NextArea == AreaTick \/ AreaLoad

SpecArea == AreaInit /\ [][NextArea]_vars

\* the engine of p holds one state per area of `program`, each with an
\* index into the area's items where there are any
StatesFit(p, program) ==
    /\ Len(p.area_states) = Len(program.areas)
    /\ \A i \in 1..Len(program.areas) :
          program.areas[i].items # <<>> =>
             /\ p.area_states[i].current_item >= 0
             /\ p.area_states[i].current_item < Len(program.areas[i].items)

\* the program p has its cursor on
CurrentProgram(p) == p.programs[p.current_program + 1]

\* C11: on every rendered frame, after any LoadScreen commands, rotations
\* and earlier frames, the engine holds exactly one effect state per area of
\* the program rendered, and each area's current_item is an index into the
\* area's items where the area has any: so it is when the frame is begun,
\* when render_frame returns, and after the rotation check for the program
\* then current.
C11_AreaStates ==
    /\ last_render.rendered =>
          /\ StatesFit(after_drain, CurrentProgram(after_drain))
          /\ StatesFit(render_frame(after_drain, CurrentProgram(after_drain)),
                       CurrentProgram(after_drain))
    /\ player.programs # <<>> => StatesFit(player, CurrentProgram(player))

\* a frame of a list loaded by a LoadScreen in mid-run is rendered with the
\* first area's index back at 0 after it has gone round three items, and a
\* later area at its second item
C11_Witness ==
    /\ last_render.rendered
    /\ player.programs = <<Q3, Q2>>
    /\ after_drain.frames_rendered > 20
    /\ player.current_program = 0
    /\ player.area_states[1].current_item = 0
    /\ player.area_states[1].effect.phase_start_ms > 0
    /\ drained # <<>>

\* the latest tick's frame: the program rendered, the time render_frame
\* computed, the area states before the frame and as render_frame left them
FrameProgram == CurrentProgram(after_drain)

FrameElapsed == after_drain.engine_frame * ms_per_frame

FrameBefore ==
    IF Len(after_drain.area_states) # Len(FrameProgram.areas)
    THEN ResetStates(FrameProgram)
    ELSE after_drain.area_states

FrameAfter == render_frame(after_drain, FrameProgram).area_states

\* the areas of the frame whose effect state was updated
FrameAreas ==
    {i \in 1..Len(FrameProgram.areas) :
        /\ FrameProgram.areas[i].width # 0
        /\ FrameProgram.areas[i].height # 0
        /\ FrameProgram.areas[i].items # <<>>}

\* the item of area i that is current after the frame has a timed entrance
TimedEntrance(i) ==
    LET e == FrameAfter[i].effect
    IN  e.effect_in # 0 /\ e.in_speed >= 1 /\ e.in_speed <= 8

\* what the claim has for an item that became current `since` ms ago
EnteringSince(e, since) ==
    LET dur == transition_duration_ms(e.in_speed)
    IN  IF since < dur
        THEN e.phase = "Entering" /\ e.progress = <<since, dur>>
        ELSE e.phase # "Entering"

\* C26: for every content item with effect_in != 0 and in_speed in 1..8,
\* from the frame at which it becomes the current item the area stays in
\* Entering until the tabulated transition duration has elapsed since that
\* frame, with progress = min(1, elapsed / duration) measured from that
\* frame: so for an item made current by an advance, and so for the first
\* item of a program, which becomes current at the first frame rendered
\* since the program was installed by start, LoadScreen or rotation
C26_EnteringFromCurrent ==
    last_render.rendered =>
       \A i \in FrameAreas :
          LET before == FrameBefore[i]
              after == FrameAfter[i]
          IN  TimedEntrance(i) =>
                 /\ after.current_item # before.current_item
                    => EnteringSince(after.effect, 0)
                 /\ (after.current_item = before.current_item
                     /\ before.effect.phase = "Entering"
                     /\ before.effect.phase_start_ms > 0)
                    => EnteringSince(after.effect,
                                     FrameElapsed - before.effect.phase_start_ms)
                 /\ (before.current_item = 0
                     /\ before.effect.phase = "Entering"
                     /\ before.effect.phase_start_ms = 0)
                    => EnteringSince(after.effect,
                                     (last_render.shown - 1) * ms_per_frame)

\* a list loaded in mid-run: at its first frame the second area of Q2 has
\* left Entering, its entrance of 200 ms measured from time 0
C26_EntranceSkipped ==
    /\ last_render.rendered
    /\ last_render.shown = 1
    /\ after_drain.programs = <<Q2>>
    /\ after_drain.engine_frame >= 7
    /\ FrameBefore[2].effect.phase = "Entering"
    /\ FrameAfter[2].effect.phase = "Displaying"

\* the effect parameters of an item: those of its <effect>, which an image,
\* a text and a gif may have, and in = out = 0, speeds 0, 50 tenths without
ItemParams(item) ==
    IF item.kind \in {"image", "text", "gif"} /\ item.effect.present
    THEN item.effect
    ELSE NoEffect

\* the areas of the frame that have two or more items, each with a display
\* duration that is not zero
TurningAreas ==
    {i \in FrameAreas :
        /\ Len(FrameProgram.areas[i].items) >= 2
        /\ \A k \in 1..Len(FrameProgram.areas[i].items) :
              ItemParams(FrameProgram.areas[i].items[k]).duration # 0}

\* how long a phase of effect state e lasts, in ms
PhaseLength(e) ==
    CASE e.phase = "Entering" ->
           (IF e.effect_in = 0 THEN 0 ELSE transition_duration_ms(e.in_speed))
      [] e.phase = "Displaying" -> e.display_duration_ms
      [] e.phase = "Exiting" ->
           (IF e.effect_out = 0 THEN 0 ELSE transition_duration_ms(e.out_speed))
      [] OTHER -> 0

\* the tick left on show the program that was on show before it
SameOnShow ==
    /\ player.programs # <<>>
    /\ player'.programs = player.programs
    /\ player'.current_program = player.current_program
    /\ Len(player.area_states) = Len(CurrentProgram(player).areas)
    /\ player'.frames_rendered = player.frames_rendered + 1

\* C27 as the claim has it: in an area with n >= 2 items whose display
\* durations are all non-zero, current_item only ever changes from i to
\* (i+1) mod n, and only on a frame where update returned advance
C27_OnlyByAdvance ==
    [][SameOnShow =>
          \A i \in 1..Len(CurrentProgram(player).areas) :
             LET area == CurrentProgram(player).areas[i]
                 n == Len(area.items)
                 was == player.area_states[i]
                 is == player'.area_states[i]
             IN  (/\ n >= 2
                  /\ area.width # 0
                  /\ area.height # 0
                  /\ \A k \in 1..n : ItemParams(area.items[k]).duration # 0)
                 => /\ is.current_item \in {was.current_item,
                                            (was.current_item + 1) % n}
                    /\ is.current_item # was.current_item
                       => update(was.effect,
                                 player.engine_frame * ms_per_frame).advance]_vars

\* C27: in an area with n >= 2 items whose display durations are all
\* non-zero, render_frame changes current_item only from i to (i+1) mod n
\* and exactly on a frame where update returned advance; the effect state
\* is then reset to Entering, progress 0, the phase begun at the frame's
\* time, with the new item's effect parameters (in = out = 0, speeds 0,
\* 50 tenths when it has none); no phase lasts beyond its length, so that
\* frame after frame every item has its turn; between two frames the state
\* is kept, unless a rotation or a LoadScreen installs a program, which
\* puts every area back to its first item
C27_ItemsInTurn ==
    /\ last_render.rendered =>
          /\ \A i \in TurningAreas :
                LET n == Len(FrameProgram.areas[i].items)
                    before == FrameBefore[i]
                    after == FrameAfter[i]
                    r == update(before.effect, FrameElapsed)
                    par == ItemParams(FrameProgram.areas[i].items[after.current_item + 1])
                IN  /\ after.current_item # before.current_item <=> r.advance
                    /\ r.advance =>
                          /\ after.current_item = (before.current_item + 1) % n
                          /\ after.effect.phase = "Entering"
                          /\ after.effect.progress = ProgressZero
                          /\ after.effect.phase_start_ms = FrameElapsed
                          /\ after.effect.effect_in = par.effect_in
                          /\ after.effect.effect_out = par.effect_out
                          /\ after.effect.in_speed = par.in_speed
                          /\ after.effect.out_speed = par.out_speed
                          /\ after.effect.display_duration_ms = par.duration * 100
                    /\ after.effect.phase # "Done"
                    /\ \/ FrameElapsed = after.effect.phase_start_ms
                       \/ FrameElapsed - after.effect.phase_start_ms
                             < PhaseLength(after.effect)
          /\ IF last_render.rotated
             THEN player.area_states = ResetStates(CurrentProgram(player))
             ELSE player.area_states = FrameAfter
    /\ \A k \in 1..Len(drained) :
          (drained[k].kind = "LoadScreen" /\ drained[k].programs # <<>>
           /\ \A j \in (k + 1)..Len(drained) : drained[j].kind # "LoadScreen")
          => after_drain.area_states = ResetStates(drained[k].programs[1])

\* the first area of Q3 goes from its third item back to its first, some
\* frames into the run
C27_Witness ==
    /\ last_render.rendered
    /\ FrameProgram = Q3
    /\ 1 \in TurningAreas
    /\ FrameBefore[1].current_item = 2
    /\ FrameAfter[1].current_item = 0
    /\ FrameAfter[1].effect.phase = "Entering"
    /\ FrameAfter[1].effect.phase_start_ms = FrameElapsed
    /\ FrameElapsed > 300

\* the areas of the frame that have one item, with a display duration that
\* is not zero
SoloAreas ==
    {i \in FrameAreas :
        /\ Len(FrameProgram.areas[i].items) = 1
        /\ ItemParams(FrameProgram.areas[i].items[1]).duration # 0}

\* C32: an area with exactly one content item and a non-zero display
\* duration keeps being drawn on every rendered frame: its effect phase is
\* never Done, the phase in which nothing is drawn, on two consecutive
\* rendered frames
C32_SoloKeptDrawn ==
    last_render.rendered =>
        \A i \in SoloAreas :
            ~(FrameBefore[i].effect.phase = "Done" /\ FrameAfter[i].effect.phase = "Done")

\* the only item of the only area of the only program has been in Done for
\* ten frames and more: the area is blank and stays so
C32_SoloBlank ==
    /\ last_render.rendered
    /\ player.programs = <<QSolo>>
    /\ 1 \in SoloAreas
    /\ FrameBefore[1].effect.phase = "Done"
    /\ FrameAfter[1] = FrameBefore[1]
    /\ FrameElapsed >= FrameAfter[1].effect.phase_start_ms + 10 * ms_per_frame

\* ------------------------------------------------------------- SpecBright
\* The brightness service under its callers: the SetLuminancePloy handler,
\* a replacement of the schedule, the schedule task's check every 30 s,
\* and the player taking the SetBrightness commands.

\* the value attribute of <luminance>: a u8, or 256, which parse::<u8>
\* rejects, or -1 for a command without the attribute
LuminanceValues == {-1, 0, 100, 200, 255, 256}

\* command.rs, SetLuminancePloy: under the write lock, set_level and the
\* send to the player; the reply is result 0 whatever the value
BrightSetLuminancePloy ==
    /\ Len(queue) < Min(MaxBrightQueue, QUEUE_CAPACITY)
    /\ \E val \in LuminanceValues :
          IF val >= 0 /\ val <= 255
          THEN /\ brightness' = set_level(brightness, val)
               /\ queue' = Enqueue(queue, SetBrightness(val, "s1", 0))
          ELSE UNCHANGED <<brightness, queue>>
    /\ UNCHANGED <<player, drained, after_drain, last_render>>
    /\ BrightOnly

BrightEntries ==
    { ScheduleEntry(h, 0, l) : h \in {6, 18}, l \in {60, 200} }

\* BrightnessService::set_schedule with any entries
BrightSetSchedule ==
    /\ \E schedule \in SeqsUpTo(BrightEntries, MaxSchedule) :
          brightness' = set_schedule(brightness, schedule)
    /\ UNCHANGED playerVars
    /\ BrightOnly

\* ScreenScheduleService::run, its brightness part: check_schedule under
\* the write lock, at some minute of the day
BrightCheckSchedule ==
    /\ \E current_minutes \in {0, 7 * 60, 19 * 60 + 30} :
          brightness' = check_schedule(brightness, current_minutes)
    /\ UNCHANGED playerVars
    /\ BrightOnly

\* the player's tick: no program is loaded, it only takes the commands
BrightTick == Tick(0) /\ UNCHANGED svcVars /\ BrightOnly

BrightInit ==
    /\ XmlIdle
    /\ FrameIdle
    /\ ConnIdle
    /\ AnsIdle
    /\ UdpIdle
    /\ ColorIdle
    /\ WatchIdle
    /\ BackIdle
    /\ SinkIdle
    /\ EffectIdle
    /\ PlayerIdle
    /\ SvcIdle
    /\ DevIdle

NextBright ==
    BrightSetLuminancePloy \/ BrightSetSchedule \/ BrightCheckSchedule \/ BrightTick

SpecBright == BrightInit /\ [][NextBright]_vars

\* C10: the stored brightness level is at most 100 in every reachable
\* state, whatever operation of the brightness service ran: SetLuminancePloy,
\* a replacement of the brightness schedule, a schedule check.
C10_BrightnessAtMost100 == brightness.current_level <= 100

\* -------------------------------------------------------------------- Spec
\* The device: two TCP sessions running handle_connection and the SDK
\* command handlers, the services behind the RwLock, the schedule task, the
\* USB watcher, and the player.  A session's packet carries one whole SDK
\* command (its reassembly is SpecXml's subject).

\* a packet as a client sends it: the length field of its header and what
\* follows it
Packet(kind, method, raw, value, entries, length) ==
    [kind |-> kind, method |-> method, raw |-> raw, value |-> value,
     entries |-> entries, length |-> length, guid |-> "s"]

\* a CMD_SDK_CMD_ASK packet: 2 bytes of command, 8 of total and index, the XML
SdkRequest(method, raw, value, entries) ==
    Packet("sdk", method, raw, value, entries, 2 + 8 + Len(raw))

\* a header whose length field is `length`, before whatever follows
RawHeader(length) == Packet("unknown", None, <<>>, 0, <<>>, length)

\* CMD_TCP_HEARTBEAT_ASK: a packet of the command alone
Heartbeat == Packet("heartbeat", None, <<>>, 0, <<>>, 2)

\* the packets the first session's client chooses from
PacketsFirst ==
    { SdkRequest("AddProgram", XmlScreenA, 0, <<>>),
      SdkRequest("AddProgram", XmlScreenB8, 0, <<>>),
      SdkRequest("AddProgram", XmlBroken, 0, <<>>),
      SdkRequest("UpdateProgram", XmlScreenA, 0, <<>>),
      SdkRequest("DeleteProgram", <<>>, 0, <<>>),
      SdkRequest("CloseScreen", <<>>, 0, <<>>),
      SdkRequest("SetLuminancePloy", <<>>, 200, <<>>),
      SdkRequest("SetSwitchTime", <<>>, 0, <<SwitchEntry(8, 20, {})>>),
      Heartbeat,
      RawHeader(1),
      RawHeader(MAX_PACKET_SIZE),
      RawHeader(MAX_PACKET_SIZE + 1) }

\* the packets the second session's client chooses from
PacketsSecond ==
    { SdkRequest("AddProgram", XmlScreenB8, 0, <<>>),
      SdkRequest("DeleteProgram", <<>>, 0, <<>>),
      SdkRequest("OpenScreen", <<>>, 0, <<>>),
      RawHeader(0),
      RawHeader(65535) }

PacketsOf(s) == IF s = "s1" THEN PacketsFirst ELSE PacketsSecond

\* an SDK command as <sdk guid="g"><in method="m">...: m = None stands
\* for a document without a method attribute
SdkRequestOf(g, method, raw, value, entries) ==
    [SdkRequest(method, raw, value, entries) EXCEPT !.guid = g]

\* extract_method(xml).unwrap_or_default()
extract_method(pkt) == IF pkt.method = None THEN "" ELSE pkt.method

\* match method.as_str(): the arm taken, named by the method it replies
\* with; the catch-all replies with the method as it came
ArmAnyCase(method) ==
    CASE method = "QueryIFVersion" \/ method = "queryIFVersion" \/ method = "GetIFVersion" -> "QueryIFVersion"
      [] method = "AddProgram" \/ method = "addProgram" \/ method = "ADDPROGRAM" -> "AddProgram"
      [] method = "UpdateProgram" \/ method = "updateProgram" -> "UpdateProgram"
      [] method = "DeleteProgram" \/ method = "deleteProgram" -> "DeleteProgram"
      [] method = "OpenScreen" \/ method = "openScreen" -> "OpenScreen"
      [] method = "CloseScreen" \/ method = "closeScreen" -> "CloseScreen"
      [] method = "GetLuminancePloy" \/ method = "getLuminancePloy" -> "GetLuminancePloy"
      [] method = "SetLuminancePloy" \/ method = "setLuminancePloy" -> "SetLuminancePloy"
      [] method = "GetSwitchTime" \/ method = "getSwitchTime" -> "GetSwitchTime"
      [] method = "SetSwitchTime" \/ method = "setSwitchTime" -> "SetSwitchTime"
      [] method = "GetTimeInfo" \/ method = "getTimeInfo" -> "GetTimeInfo"
      [] method = "SetTimeInfo" \/ method = "setTimeInfo" -> "SetTimeInfo"
      [] method = "GetDeviceInfo" \/ method = "getDeviceInfo" -> "GetDeviceInfo"
      [] method = "GetAllFontInfo" \/ method = "getAllFontInfo" -> "GetAllFontInfo"
      [] method = "GetEth0Info" \/ method = "getEth0Info" -> "GetEth0Info"
      [] method = "SetEth0Info" \/ method = "setEth0Info" -> "SetEth0Info"
      [] method = "GetFiles" \/ method = "getFiles" -> "GetFiles"
      [] method = "DeleteFiles" \/ method = "deleteFiles" -> "DeleteFiles"
      [] method = "GetBootLogo" \/ method = "getBootLogo" -> "GetBootLogo"
      [] method = "SetBootLogoName" \/ method = "setBootLogoName" \/ method = "ClearBootLogo" \/ method = "clearBootLogo" -> "SetBootLogoName"
      [] method = "GetSDKTcpServer" \/ method = "getSDKTcpServer" -> "GetSDKTcpServer"
      [] method = "SetSDKTcpServer" \/ method = "setSDKTcpServer" -> "SetSDKTcpServer"
      [] method = "GetWifiInfo" \/ method = "getWifiInfo" -> "GetWifiInfo"
      [] method = "SetWifiInfo" \/ method = "setWifiInfo" -> "SetWifiInfo"
      [] OTHER -> method

Arm(method) ==
    CASE method = "QueryIFVersion" \/ method = "queryIFVersion" \/ method = "GetIFVersion" -> "QueryIFVersion"
      [] method = "AddProgram" \/ method = "addProgram" -> "AddProgram"
      [] method = "UpdateProgram" \/ method = "updateProgram" -> "UpdateProgram"
      [] method = "DeleteProgram" \/ method = "deleteProgram" -> "DeleteProgram"
      [] method = "OpenScreen" \/ method = "openScreen" -> "OpenScreen"
      [] method = "CloseScreen" \/ method = "closeScreen" -> "CloseScreen"
      [] method = "GetLuminancePloy" \/ method = "getLuminancePloy" -> "GetLuminancePloy"
      [] method = "SetLuminancePloy" \/ method = "setLuminancePloy" -> "SetLuminancePloy"
      [] method = "GetSwitchTime" \/ method = "getSwitchTime" -> "GetSwitchTime"
      [] method = "SetSwitchTime" \/ method = "setSwitchTime" -> "SetSwitchTime"
      [] method = "GetTimeInfo" \/ method = "getTimeInfo" -> "GetTimeInfo"
      [] method = "SetTimeInfo" \/ method = "setTimeInfo" -> "SetTimeInfo"
      [] method = "GetDeviceInfo" \/ method = "getDeviceInfo" -> "GetDeviceInfo"
      [] method = "GetAllFontInfo" \/ method = "getAllFontInfo" -> "GetAllFontInfo"
      [] method = "GetEth0Info" \/ method = "getEth0Info" -> "GetEth0Info"
      [] method = "SetEth0Info" \/ method = "setEth0Info" -> "SetEth0Info"
      [] method = "GetFiles" \/ method = "getFiles" -> "GetFiles"
      [] method = "DeleteFiles" \/ method = "deleteFiles" -> "DeleteFiles"
      [] method = "GetBootLogo" \/ method = "getBootLogo" -> "GetBootLogo"
      [] method = "SetBootLogoName" \/ method = "setBootLogoName" \/ method = "ClearBootLogo" \/ method = "clearBootLogo" -> "SetBootLogoName"
      [] method = "GetSDKTcpServer" \/ method = "getSDKTcpServer" -> "GetSDKTcpServer"
      [] method = "SetSDKTcpServer" \/ method = "setSDKTcpServer" -> "SetSDKTcpServer"
      [] method = "GetWifiInfo" \/ method = "getWifiInfo" -> "GetWifiInfo"
      [] method = "SetWifiInfo" \/ method = "setWifiInfo" -> "SetWifiInfo"
      [] OTHER -> method

\* the methods an arm of handle_sdk_command matches
Recognized ==
    {"QueryIFVersion", "queryIFVersion", "GetIFVersion", "AddProgram",
     "addProgram", "UpdateProgram", "updateProgram", "DeleteProgram",
     "deleteProgram", "OpenScreen", "openScreen", "CloseScreen",
     "closeScreen", "GetLuminancePloy", "getLuminancePloy",
     "SetLuminancePloy", "setLuminancePloy", "GetSwitchTime",
     "getSwitchTime", "SetSwitchTime", "setSwitchTime", "GetTimeInfo",
     "getTimeInfo", "SetTimeInfo", "setTimeInfo", "GetDeviceInfo",
     "getDeviceInfo", "GetAllFontInfo", "getAllFontInfo", "GetEth0Info",
     "getEth0Info", "SetEth0Info", "setEth0Info", "GetFiles", "getFiles",
     "DeleteFiles", "deleteFiles", "GetBootLogo", "getBootLogo",
     "SetBootLogoName", "setBootLogoName", "ClearBootLogo", "clearBootLogo",
     "GetSDKTcpServer", "getSDKTcpServer", "SetSDKTcpServer",
     "setSDKTcpServer", "GetWifiInfo", "getWifiInfo", "SetWifiInfo",
     "setWifiInfo"}

\* the Err arm of parse_program_xml in an arm: whether its reply has the
\* <error message=".."/> child
ErrorChild(arm) == arm = "AddProgram"

\* handle_sdk_command up to its first await: the method's parse of its input
StartHandler(pkt) ==
    LET xml == from_utf8_lossy(pkt.raw)
        method == extract_method(pkt)
        arm == Arm(method)
        r == IF arm \in {"AddProgram", "UpdateProgram"}
             THEN parse_program_xml(xml)
             ELSE IF arm = "SetLuminancePloy"
                  THEN [ok |-> pkt.value >= 0 /\ pkt.value <= 255, programs |-> <<>>]
                  ELSE [ok |-> TRUE, programs |-> <<>>]
    IN  [NoPending EXCEPT !.method = arm, !.raw = pkt.raw, !.xml = xml,
                          !.value = pkt.value, !.entries = pkt.entries,
                          !.ok = r.ok, !.programs = r.programs,
                          !.result = IF arm \in {"AddProgram", "UpdateProgram"}
                                        /\ ~r.ok
                                     THEN 1 ELSE 0,
                          !.in_method = method,
                          !.req_guid = pkt.guid,
                          !.error = arm \in {"AddProgram", "UpdateProgram"}
                                    /\ ~r.ok /\ ErrorChild(arm)]

\* let guid = &session.guid: the guid handle_sdk_command writes into the
\* reply to the command of packet pkt on session s
ReplyGuidOfRequest(s, pkt) == pkt.guid

ReplyGuid(s, pkt) == session_guid[s]

\* the reply to SDK command p, with what its handler had done by then:
\* <?xml ..?><sdk guid="{guid}"><out method="{method}"> .. <result
\* value="{result}"/>, <error message=".."/> if `error`
Reply(p) ==
    [method |-> p.method, result |-> p.result, raw |-> p.raw, ok |-> p.ok,
     stored |-> p.stored, written |-> p.written, enq |-> p.enq,
     in_method |-> p.in_method, req_guid |-> p.req_guid, guid |-> p.guid,
     error |-> p.error]

\* where the handler of p goes first
FirstStepUnparsed(p) ==
    CASE p.method \in {"AddProgram", "UpdateProgram"} -> "store"
      [] p.method \in {"DeleteProgram", "DeleteFiles"} -> "store"
      [] p.method \in {"OpenScreen", "CloseScreen"} -> "send"
      [] p.method = "SetLuminancePloy" -> (IF p.ok THEN "lock" ELSE "reply")
      [] p.method = "SetSwitchTime" -> "lock"
      [] OTHER -> "reply"

FirstStep(p) ==
    CASE p.method \in {"AddProgram", "UpdateProgram"} ->
             (IF p.ok THEN "store" ELSE "reply")
      [] p.method \in {"DeleteProgram", "DeleteFiles"} -> "store"
      [] p.method \in {"OpenScreen", "CloseScreen"} -> "send"
      [] p.method = "SetLuminancePloy" -> (IF p.ok THEN "lock" ELSE "reply")
      [] p.method = "SetSwitchTime" -> "lock"
      [] OTHER -> "reply"

\* the device state of the SDK's contract
DevState ==
    DeviceState(storage, player.programs, brightness, screen_schedule.entries,
                player.screen_on)

\* nobody is at work and no command waits
Quiet ==
    /\ \A t \in Sessions : pc[t] \in {"read", "closed"}
    /\ queue = <<>>
    /\ rwlock = None
    /\ sched.pc = "idle"
    /\ usb.pc = "idle"

\* the AddProgram-then-DeleteProgram pair being followed, as session s
\* reads packet pkt
C7Event(s, pkt) ==
    IF pkt.kind = "sdk" /\ LengthOk(pkt.length) /\ pkt.method = "AddProgram"
          /\ StartHandler(pkt).ok /\ Quiet
    THEN [stage |-> "add", owner |-> s, cleared |-> FALSE, pre |-> DevState]
    ELSE IF pkt.kind = "sdk" /\ LengthOk(pkt.length) /\ pkt.method = "DeleteProgram"
               /\ c7.stage = "add" /\ c7.owner = s
         THEN [c7 EXCEPT !.stage = "del"]
         ELSE NoC7

\* handle_connection, the end of a turn of its loop: the response to p is
\* written to the stream and the next header is awaited
Replied(s, p) ==
    /\ replies' = [replies EXCEPT ![s] = Append(@, Reply(p))]
    /\ pending' = [pending EXCEPT ![s] = NoPending]
    /\ pc' = [pc EXCEPT ![s] = "read"]

\* handle_connection: read one packet's header and, the length allowing,
\* the packet; answer a heartbeat; run an SDK command's handler up to its
\* first await, or to its reply if it has none
RecvWithin(s, packets, limit) ==
    /\ pc[s] = "read"
    /\ ops < limit
    /\ \E pkt \in packets :
          /\ hdr' = [hdr EXCEPT ![s] = pkt.length]
          /\ c7' = C7Event(s, pkt)
          /\ IF ~LengthOk(pkt.length)
             THEN /\ pc' = [pc EXCEPT ![s] = "closed"]
                  /\ UNCHANGED <<pending, replies>>
             ELSE CASE pkt.kind = "heartbeat" ->
                         Replied(s, [NoPending EXCEPT !.method = "Heartbeat"])
                    [] pkt.kind = "unknown" ->
                         UNCHANGED <<pc, pending, replies>>
                    [] pkt.kind = "sdk" ->
                         LET p == [StartHandler(pkt) EXCEPT !.guid = ReplyGuid(s, pkt)]
                         IN  IF FirstStep(p) = "reply"
                             THEN Replied(s, p)
                             ELSE /\ pending' = [pending EXCEPT ![s] = p]
                                  /\ pc' = [pc EXCEPT ![s] = FirstStep(p)]
                                  /\ UNCHANGED replies
    /\ ops' = ops + 1
    /\ UNCHANGED <<storage, screen_schedule, rwlock, sched, usb, sent_n, applied_n>>
    /\ UNCHANGED <<playerVars, svcVars>>
    /\ DevOnly

RecvFrom(s, packets) == RecvWithin(s, packets, MaxOps)

Recv(s) == RecvFrom(s, PacketsOf(s))

\* AddProgram, UpdateProgram: save_program, its result dropped;
\* DeleteProgram: clear, its result dropped; DeleteFiles: delete_file for
\* each name, its result dropped, and the reply
StoreEffect(s) ==
    CASE pending[s].method = "DeleteProgram" ->
           \E kept \in SUBSET Existing(storage) :
              /\ storage' = clear(storage, kept)
              /\ pending' = [pending EXCEPT ![s].stored = (kept = {})]
              /\ c7' = IF c7.stage = "del" /\ c7.owner = s
                       THEN [c7 EXCEPT !.cleared = (kept = {})]
                       ELSE c7
              /\ pc' = [pc EXCEPT ![s] = "send"]
              /\ UNCHANGED replies
      [] pending[s].method = "DeleteFiles" ->
           \E failed \in SUBSET Existing(storage) :
              /\ storage' = delete_files(storage, pending[s].entries, failed)
              /\ c7' = c7
              /\ Replied(s, pending[s])
      [] OTHER ->
           \E io_ok \in BOOLEAN :
              /\ storage' = save_program(storage, pending[s].xml, io_ok)
              /\ pending' = [pending EXCEPT
                                ![s].stored = io_ok,
                                ![s].written = IF io_ok
                                               THEN storage'["current_program.xml"]
                                               ELSE NoBytes]
              /\ c7' = c7
              /\ pc' = [pc EXCEPT ![s] = "send"]
              /\ UNCHANGED replies

\* the storing arms: services.read().await, the storage operation, and the
\* read guard dropped
HandlerStore(s) ==
    /\ pc[s] = "store"
    /\ rwlock = None
    /\ StoreEffect(s)
    /\ UNCHANGED <<hdr, screen_schedule, rwlock, sched, usb, sent_n,
                   applied_n, ops>>
    /\ UNCHANGED <<playerVars, svcVars>>
    /\ DevOnly

\* the storing arms, step by step: services.read().await returns, which
\* it does while nobody holds write access
StoreBegin(s) ==
    /\ pc[s] = "store"
    /\ rwlock = None
    /\ readers' = readers \cup {s}
    /\ pc' = [pc EXCEPT ![s] = "storing"]
    /\ UNCHANGED <<hdr, pending, replies, storage, screen_schedule, rwlock,
                   sched, usb, sent_n, applied_n, ops, c7>>
    /\ UNCHANGED <<playerVars, svcVars>>
    /\ LockOnly

\* the storage operation, and the read guard dropped
StoreEnd(s) ==
    /\ pc[s] = "storing"
    /\ s \in readers
    /\ StoreEffect(s)
    /\ readers' = readers \ {s}
    /\ UNCHANGED <<hdr, screen_schedule, rwlock, sched, usb, sent_n,
                   applied_n, ops>>
    /\ UNCHANGED <<playerVars, svcVars>>
    /\ LockOnly

\* SetLuminancePloy: take the write lock, set_level, keep the lock for the
\* send; SetSwitchTime: set_schedule under the write lock, and the reply
HandlerLockNoHold(s) ==
    /\ pc[s] = "lock"
    /\ rwlock = None
    /\ readers = {}
    /\ IF pending[s].method = "SetLuminancePloy"
       THEN /\ brightness' = set_level(brightness, pending[s].value)
            /\ rwlock' = None
            /\ pc' = [pc EXCEPT ![s] = "send"]
            /\ UNCHANGED <<screen_schedule, sched>>
            /\ UNCHANGED <<pending, replies>>
       ELSE /\ screen_schedule' =
                  screen_set_schedule(screen_schedule, pending[s].entries)
            /\ sched' = [sched EXCEPT !.replaced = TRUE]
            /\ Replied(s, pending[s])
            /\ UNCHANGED <<brightness, rwlock>>
    /\ UNCHANGED <<hdr, storage, usb, sent_n, applied_n, ops, c7>>
    /\ UNCHANGED playerVars
    /\ DevOnly

HandlerLock(s) ==
    /\ pc[s] = "lock"
    /\ rwlock = None
    /\ readers = {}
    /\ IF pending[s].method = "SetLuminancePloy"
       THEN /\ brightness' = set_level(brightness, pending[s].value)
            /\ rwlock' = s
            /\ pc' = [pc EXCEPT ![s] = "send"]
            /\ UNCHANGED <<screen_schedule, sched>>
            /\ UNCHANGED <<pending, replies>>
       ELSE /\ screen_schedule' =
                  screen_set_schedule(screen_schedule, pending[s].entries)
            /\ sched' = [sched EXCEPT !.replaced = TRUE]
            /\ Replied(s, pending[s])
            /\ UNCHANGED <<brightness, rwlock>>
    /\ UNCHANGED <<hdr, storage, usb, sent_n, applied_n, ops, c7>>
    /\ UNCHANGED playerVars
    /\ DevOnly

\* the PlayerCommand the handler of p sends
CommandOf(p, s, n) ==
    CASE p.method \in {"AddProgram", "UpdateProgram"} ->
             Via(LoadScreen(p.programs, s, n), p.method)
      [] p.method = "DeleteProgram" -> Via(LoadScreen(<<>>, s, n), p.method)
      [] p.method = "OpenScreen" -> Via(ScreenPower(TRUE, s, n), p.method)
      [] p.method = "CloseScreen" -> Via(ScreenPower(FALSE, s, n), p.method)
      [] p.method = "SetLuminancePloy" -> Via(SetBrightness(p.value, s, n), p.method)

\* player_tx.send(..).await: waits while the queue is full; the write lock
\* of SetLuminancePloy is dropped after it; then the reply
HandlerSendKeepLock(s) ==
    /\ pc[s] = "send"
    /\ Len(queue) < QUEUE_CAPACITY
    /\ LET n == sent_n[s] + 1
       IN  /\ queue' = Enqueue(queue, CommandOf(pending[s], s, n))
           /\ sent_n' = [sent_n EXCEPT ![s] = n]
           /\ Replied(s, [pending[s] EXCEPT !.enq = n])
    /\ UNCHANGED rwlock
    /\ UNCHANGED <<hdr, storage, screen_schedule, sched, usb, applied_n, ops, c7>>
    /\ UNCHANGED <<player, drained, after_drain, last_render, svcVars>>
    /\ DevOnly

HandlerSend(s) ==
    /\ pc[s] = "send"
    /\ Len(queue) < QUEUE_CAPACITY
    /\ LET n == sent_n[s] + 1
       IN  /\ queue' = Enqueue(queue, CommandOf(pending[s], s, n))
           /\ sent_n' = [sent_n EXCEPT ![s] = n]
           /\ Replied(s, [pending[s] EXCEPT !.enq = n])
    /\ rwlock' = IF rwlock = s THEN None ELSE rwlock
    /\ UNCHANGED <<hdr, storage, screen_schedule, sched, usb, applied_n, ops, c7>>
    /\ UNCHANGED <<player, drained, after_drain, last_render, svcVars>>
    /\ DevOnly

\* ScreenScheduleService::run, a round: should_be_on under the read lock
SchedReadWithin(limit) ==
    /\ sched.pc = "idle"
    /\ rwlock = None
    /\ ops < limit
    /\ \E now \in {7, 12} :
          sched' = [sched EXCEPT
                       !.pc = "lock",
                       !.should_on = should_be_on(screen_schedule, now, "Mon")]
    /\ ops' = ops + 1
    /\ c7' = NoC7
    /\ UNCHANGED <<pc, hdr, pending, replies, storage, screen_schedule, rwlock,
                   usb, sent_n, applied_n>>
    /\ UNCHANGED <<playerVars, svcVars>>
    /\ DevOnly

SchedRead == SchedReadWithin(MaxOps)

\* if let Some(on): the write lock, last_state; with nothing to send, on to
\* brightness.check_schedule() under the write lock
SchedLock ==
    /\ sched.pc = "lock"
    /\ rwlock = None
    /\ readers = {}
    /\ IF sched.should_on # None /\ StateChanged(screen_schedule, sched.should_on)
       THEN /\ screen_schedule' =
                  [screen_schedule EXCEPT !.last_state = sched.should_on]
            /\ rwlock' = "schedule"
            /\ sched' = [sched EXCEPT !.pc = "send"]
            /\ UNCHANGED brightness
       ELSE /\ brightness' = check_schedule(brightness, 7 * 60)
            /\ sched' = [sched EXCEPT !.pc = "idle"]
            /\ UNCHANGED <<screen_schedule, rwlock>>
    /\ UNCHANGED <<pc, hdr, pending, replies, storage, usb, sent_n, applied_n,
                   ops, c7>>
    /\ UNCHANGED playerVars
    /\ DevOnly

\* player_tx.send(ScreenPower(on)).await with the write lock held, then
\* brightness.check_schedule() under the write lock
SchedSend ==
    /\ sched.pc = "send"
    /\ Len(queue) < QUEUE_CAPACITY
    /\ LET n == sent_n["schedule"] + 1
       IN  /\ queue' = Enqueue(queue, ScreenPower(sched.should_on = "on", "schedule", n))
           /\ sent_n' = [sent_n EXCEPT !["schedule"] = n]
    /\ rwlock' = None
    /\ brightness' = check_schedule(brightness, 7 * 60)
    /\ sched' = [sched EXCEPT !.pc = "idle", !.emitted = sched.should_on,
                               !.replaced = FALSE]
    /\ UNCHANGED <<pc, hdr, pending, replies, storage, screen_schedule, usb,
                   applied_n, ops, c7>>
    /\ UNCHANGED <<player, drained, after_drain, last_render>>
    /\ DevOnly

\* UsbDiskService::load_from_usb: a drive with program.xml and logo.png is
\* found, its files are copied into the program directory
UsbCopy ==
    /\ usb.pc = "idle"
    /\ ~usb.last_seen
    /\ ops < MaxOps
    /\ storage' = [storage EXCEPT !["program.xml"] = XmlScreenB,
                                  !["logo.png"] = <<81>>]
    /\ usb' = [usb EXCEPT !.pc = "parse"]
    /\ ops' = ops + 1
    /\ c7' = NoC7
    /\ UNCHANGED <<pc, hdr, pending, replies, screen_schedule, rwlock, sched,
                   sent_n, applied_n>>
    /\ UNCHANGED <<playerVars, svcVars>>
    /\ DevOnly

\* load_from_usb: parse the copy, send LoadScreen; an Err leaves last_seen
UsbSend ==
    /\ usb.pc = "parse"
    /\ Len(queue) < QUEUE_CAPACITY
    /\ LET r == parse_program_file(storage["program.xml"])
           n == sent_n["usb"] + 1
       IN  IF r.ok
           THEN /\ queue' = Enqueue(queue, LoadScreen(r.programs, "usb", n))
                /\ sent_n' = [sent_n EXCEPT !["usb"] = n]
                /\ usb' = [usb EXCEPT !.pc = "idle", !.last_seen = TRUE]
           ELSE /\ usb' = [usb EXCEPT !.pc = "idle", !.last_seen = FALSE]
                /\ UNCHANGED <<queue, sent_n>>
    /\ UNCHANGED <<pc, hdr, pending, replies, storage, screen_schedule, rwlock,
                   sched, applied_n, ops, c7>>
    /\ UNCHANGED <<player, drained, after_drain, last_render, svcVars>>
    /\ DevOnly

\* commands of source src among those of q
FromSource(q, src) == SelectSeq(q, LAMBDA cmd : cmd.src = src)

\* Player::run, one tick
DevTick ==
    /\ Tick(MaxFrames)
    /\ applied_n' = [src \in Sources |->
                        applied_n[src] + Len(FromSource(Taken(queue), src))]
    /\ UNCHANGED <<pc, hdr, pending, replies, storage, screen_schedule, rwlock,
                   sched, usb, sent_n, ops, c7>>
    /\ UNCHANGED svcVars
    /\ DevOnly

\* read_dir: the files of the program directory whose extension is xml,
\* in the orders the file system may list them
DirOrders ==
    { <<"current_program.xml", "program.xml">>,
      <<"program.xml", "current_program.xml">> }

\* Player::load_programs_from_dir: self.programs.extend(screen.programs)
\* for every file that parses, in the order of read_dir
DirPrograms(dir, order) ==
    LET first == parse_program_file(dir[order[1]])
        second == parse_program_file(dir[order[2]])
    IN  (IF first.ok THEN first.programs ELSE <<>>)
        \o (IF second.ok THEN second.programs ELSE <<>>)

\* main: the device after start, but for the guids of its sessions
DeviceInit ==
    /\ XmlIdle
    /\ FrameIdle
    /\ ConnIdle
    /\ AnsIdle
    /\ UdpIdle
    /\ ColorIdle
    /\ WatchIdle
    /\ BackIdle
    /\ SinkIdle
    /\ EffectIdle
    /\ SvcIdle
    /\ pc = [s \in Sessions |-> "read"]
    /\ hdr = [s \in Sessions |-> -1]
    /\ pending = [s \in Sessions |-> NoPending]
    /\ replies = [s \in Sessions |-> <<>>]
    /\ storage \in {EmptyDir, StockedDir}
    /\ screen_schedule = ScreenScheduleNew
    /\ rwlock = None
    /\ sched = SchedNew
    /\ usb = [pc |-> "idle", last_seen |-> FALSE]
    /\ sent_n = [src \in Sources |-> 0]
    /\ applied_n = [src \in Sources |-> 0]
    /\ ops = 0
    /\ c7 = NoC7
    /\ boots = 0
    /\ readers = {}
    /\ \E order \in DirOrders :
          player = load_programs(PlayerNew, DirPrograms(storage, order))
    /\ queue = <<>>
    /\ drained = <<>>
    /\ after_drain = player
    /\ last_render = NoRender

Init == DeviceInit /\ session_guid = SessionGuids

Next ==
    \/ \E s \in Sessions : Recv(s)
    \/ \E s \in Sessions : HandlerStore(s)
    \/ \E s \in Sessions : HandlerLock(s)
    \/ \E s \in Sessions : HandlerSend(s)
    \/ SchedRead
    \/ SchedLock
    \/ SchedSend
    \/ UsbCopy
    \/ UsbSend
    \/ DevTick

Spec == Init /\ [][Next]_vars

\* every AddProgram, UpdateProgram and DeleteProgram answered with result 0
\* had its storage operation succeed, and the USB watcher loaded nothing
ProgramCommandsStored ==
    /\ sent_n["usb"] = 0
    /\ \A s \in Sessions : \A k \in 1..Len(replies[s]) :
          (/\ replies[s][k].method \in {"AddProgram", "UpdateProgram", "DeleteProgram"}
           /\ replies[s][k].result = 0)
          => replies[s][k].stored

\* C34: after any interleaving of AddProgram, UpdateProgram and
\* DeleteProgram commands of two sessions has quiesced (all handlers
\* returned, the queue drained), current_program.xml holds the XML of the
\* screen whose programs the player shows, and is absent when the list was
\* emptied by DeleteProgram
C34_FileMatchesShow ==
    (Quiet /\ ProgramCommandsStored) =>
        IF player.programs = <<>>
        THEN storage["current_program.xml"] = NoBytes
        ELSE /\ parse_program_file(storage["current_program.xml"]).ok
             /\ parse_program_file(storage["current_program.xml"]).programs
                  = player.programs

\* both sessions sent AddProgram; the second stored its XML last and the
\* first enqueued its LoadScreen last: the file is the second's, the
\* programs on show are the first's
C34_Crossed ==
    /\ Quiet
    /\ ProgramCommandsStored
    /\ Len(replies["s1"]) = 1 /\ replies["s1"][1].method = "AddProgram"
    /\ Len(replies["s2"]) = 1 /\ replies["s2"][1].method = "AddProgram"
    /\ replies["s1"][1].raw = XmlScreenA
    /\ storage["current_program.xml"] = from_utf8_lossy(XmlScreenB8)
    /\ player.programs = parse_program_xml(XmlScreenA).programs

\* one session added a program and the other deleted: the file is gone and
\* the added programs are on show
C34_DeletedButShown ==
    /\ Quiet
    /\ ProgramCommandsStored
    /\ Len(replies["s1"]) = 1 /\ replies["s1"][1].method = "AddProgram"
    /\ Len(replies["s2"]) = 1 /\ replies["s2"][1].method = "DeleteProgram"
    /\ storage["current_program.xml"] = NoBytes
    /\ player.programs = parse_program_xml(XmlScreenA).programs

\* ----------------------------------------------------------- SpecCursor
\* The player with LoadScreen commands that arrive at any time, also after
\* rotations, and install longer, shorter and empty lists; D0 is shown for
\* no time, so the cursor moves with every frame.
CursorScreens == { <<D0, D0, D2>>, <<D0, D2>>, <<D2>>, <<>> }

CursorLoad ==
    /\ Len(queue) < 2
    /\ \E screen \in CursorScreens :
          queue' = Enqueue(queue, LoadScreen(screen, "s1", 0))
    /\ UNCHANGED <<player, drained, after_drain, last_render>>
    /\ RotOnly

CursorTick == Tick(MaxCursorFrames) /\ RotOnly

NextCursor == CursorTick \/ CursorLoad \/ RotPower

SpecCursor == RotInit /\ [][NextCursor]_vars

\* the cursor of p is an index into its list, if the list has a program
CursorValid(p) ==
    p.programs # <<>> => p.current_program \in 0..(Len(p.programs) - 1)

\* C39: whenever the player's list of programs is not empty the cursor is
\* an index into it, after any LoadScreen commands, those that install a
\* shorter or an empty list among them, and any rotations; the program
\* handed to the renderer is one of the current list
C39_CursorValid ==
    /\ CursorValid(player)
    /\ CursorValid(after_drain)
    /\ last_render.rendered
       => /\ last_render.cursor = after_drain.current_program
          /\ last_render.cursor + 1 \in DOMAIN after_drain.programs

\* after three frames, by when the list D0, D0, D2 has its cursor on its
\* third program, a tick took the LoadScreen of a list of two; it rendered
\* the first program of the two and rotated to the second
C39_Witness ==
    /\ Len(drained) = 1
    /\ drained[1].kind = "LoadScreen"
    /\ drained[1].programs = <<D0, D2>>
    /\ last_render.loaded_at = 3
    /\ last_render.rendered
    /\ last_render.cursor = 0
    /\ player.current_program = 1
    /\ player.frames_rendered = MaxCursorFrames

\* a tick took the LoadScreen of the empty list: nothing is rendered
C39_EmptyInstalled ==
    /\ drained # <<>>
    /\ drained[Len(drained)].kind = "LoadScreen"
    /\ player.programs = <<>>
    /\ ~last_render.rendered
    /\ player.frames_rendered = 3

\* ------------------------------------------------------------- SpecSink
\* Player::run with its pixel sink: the frame goes to a PNG file, to stdout
\* or nowhere, and a write to the sink succeeds or fails.

\* OutputMode: Png, Raw, Framebuffer
OutputModes == {"png", "raw", "framebuffer"}

\* OutputMode::Png: the frame is saved every 5 seconds
SaveDue(frames_rendered) ==
    frames_rendered = 0 \/ frames_rendered % (Fps * 5) = 0

\* the tick hands its frame to the sink: save_png or stdout().write_all
SinkWrites(mode, frames_rendered) ==
    \/ mode = "raw"
    \/ mode = "png" /\ SaveDue(frames_rendered)

SinkScreens == { <<D2>>, <<D0, D2>>, <<>> }

SinkCommands ==
    { LoadScreen(<<D2>>, "s1", 0), LoadScreen(<<>>, "s1", 0),
      ScreenPower(FALSE, "s1", 0), ScreenPower(TRUE, "s1", 0) }

SinkInit ==
    /\ XmlIdle /\ FrameIdle /\ ConnIdle /\ AnsIdle /\ UdpIdle /\ ColorIdle
    /\ WatchIdle /\ BackIdle /\ EffectIdle /\ SvcIdle /\ DevIdle
    /\ \E screen \in SinkScreens :
          /\ player = load_programs(PlayerNew, screen)
          /\ after_drain = player
    /\ queue = <<>>
    /\ drained = <<>>
    /\ last_render = NoRender
    /\ k_mode \in OutputModes
    /\ k_running = TRUE
    /\ k_writes = 0
    /\ k_failed = 0

\* a handler sends the player a command; the process ends when run returns
SinkSend ==
    /\ k_running
    /\ Len(queue) < 2
    /\ \E cmd \in SinkCommands : queue' = Enqueue(queue, cmd)
    /\ UNCHANGED <<player, drained, after_drain, last_render>>
    /\ UNCHANGED sinkVars
    /\ SinkOnly

\* Player::run, one tick: the drain, the frame, the sink, the count and the
\* rotation.  save_png(..).context(..)? returns from run when it fails, the
\* frame rendered but not counted; write_all(..).ok() drops the error
SinkTick ==
    /\ k_running
    /\ LET p1 == DrainQueue(player, Taken(queue))
           writes == ShouldRender(p1) /\ SinkWrites(k_mode, p1.frames_rendered)
       IN  \E ok \in BOOLEAN :
             /\ ~writes => ok
             /\ k_writes' = k_writes + (IF writes THEN 1 ELSE 0)
             /\ k_failed' = k_failed + (IF ok THEN 0 ELSE 1)
             /\ IF ~ok /\ k_mode = "png"
                THEN /\ p1.frames_rendered < MaxSinkFrames
                     /\ k_running' = FALSE
                     /\ queue' = SubSeq(queue, Len(Taken(queue)) + 1, Len(queue))
                     /\ drained' = Taken(queue)
                     /\ after_drain' = p1
                     /\ player' = render_frame(p1, p1.programs[p1.current_program + 1])
                     /\ last_render' = [last_render EXCEPT
                                           !.rendered = TRUE,
                                           !.cursor = p1.current_program,
                                           !.rotated = FALSE]
                ELSE /\ Tick(MaxSinkFrames)
                     /\ UNCHANGED k_running
    /\ UNCHANGED k_mode
    /\ SinkOnly

NextSink == SinkSend \/ SinkTick

SpecSink == SinkInit /\ [][NextSink]_vars

\* C40: a failure to write a frame to the pixel sink, be it the saving of
\* the PNG file or the writing of the raw bytes to stdout, does not stop
\* the render loop: the player goes on ticking, draining its queue and
\* rendering the frames that follow
C40_SinkFailureSurvived == k_failed > 0 => k_running

\* the first save of the PNG file failed: run has returned, the frame is
\* rendered but not counted
C40_PngStopped ==
    /\ k_mode = "png"
    /\ ~k_running
    /\ k_failed = 1
    /\ k_writes = 1
    /\ player.frames_rendered = 0
    /\ player.engine_frame = 1
    /\ ~ENABLED SinkTick

\* every write to stdout failed and the player rendered on
C40_RawGoesOn ==
    /\ k_mode = "raw"
    /\ k_running
    /\ k_failed = MaxSinkFrames
    /\ k_writes = MaxSinkFrames
    /\ player.frames_rendered = MaxSinkFrames

\* ------------------------------------------------------------- SpecLive
\* The device without a program, its player ticking for ever, with the
\* queue empty or filled to its capacity by the second session's OpenScreen
\* commands, while its sessions set the brightness and the schedule and
\* the schedule task makes its rounds.

\* the replies to n OpenScreen commands of session s, and what they enqueued
OpenScreenReplies(s, n) ==
    [k \in 1..n |->
        Reply([StartHandler(SdkRequest("OpenScreen", <<>>, 0, <<>>))
                 EXCEPT !.guid = SessionGuids[s], !.enq = k])]

OpenScreenCommands(s, n) ==
    [k \in 1..n |-> Via(ScreenPower(TRUE, s, k), "OpenScreen")]

LivePacketsFirst ==
    { SdkRequest("SetLuminancePloy", <<>>, 200, <<>>),
      SdkRequest("SetSwitchTime", <<>>, 0, <<SwitchEntry(8, 20, {})>>) }

LivePacketsSecond ==
    { SdkRequest("SetLuminancePloy", <<>>, 50, <<>>),
      SdkRequest("CloseScreen", <<>>, 0, <<>>) }

LivePackets(s) == IF s = "s1" THEN LivePacketsFirst ELSE LivePacketsSecond

RecvLive(s) == RecvWithin(s, LivePackets(s), MaxLiveOps)

SchedReadLive == SchedReadWithin(MaxLiveOps)

LiveInit ==
    /\ XmlIdle /\ FrameIdle /\ ConnIdle /\ AnsIdle /\ UdpIdle /\ ColorIdle
    /\ WatchIdle /\ BackIdle /\ SinkIdle /\ EffectIdle /\ SvcIdle
    /\ pc = [s \in Sessions |-> "read"]
    /\ hdr = [s \in Sessions |-> -1]
    /\ pending = [s \in Sessions |-> NoPending]
    /\ storage = EmptyDir
    /\ screen_schedule = ScreenScheduleNew
    /\ rwlock = None
    /\ sched = SchedNew
    /\ usb = [pc |-> "idle", last_seen |-> FALSE]
    /\ applied_n = [src \in Sources |-> 0]
    /\ ops = 0
    /\ c7 = NoC7
    /\ boots = 0
    /\ readers = {}
    /\ session_guid = SessionGuids
    /\ player = PlayerNew
    /\ \E n \in {0, QUEUE_CAPACITY} :
          /\ queue = OpenScreenCommands("s2", n)
          /\ replies = [s \in Sessions |->
                          IF s = "s2" THEN OpenScreenReplies(s, n) ELSE <<>>]
          /\ sent_n = [src \in Sources |-> IF src = "s2" THEN n ELSE 0]
    /\ drained = <<>>
    /\ after_drain = player
    /\ last_render = NoRender

NextLive ==
    \/ \E s \in Sessions : RecvLive(s)
    \/ \E s \in Sessions : HandlerLock(s)
    \/ \E s \in Sessions : HandlerSend(s)
    \/ SchedReadLive
    \/ SchedLock
    \/ SchedSend
    \/ DevTick

\* the player's interval fires again and again; a task that can go on does
LiveFair ==
    /\ WF_vars(DevTick)
    /\ WF_vars(SchedLock)
    /\ WF_vars(SchedSend)
    /\ \A s \in Sessions : WF_vars(HandlerLock(s)) /\ WF_vars(HandlerSend(s))

SpecLive == LiveInit /\ [][NextLive]_vars /\ LiveFair

\* C35: while the player loop runs, every command enqueued by a handler
\* or by the schedule task is eventually applied, and no task blocks for
\* ever: a sender that waits on the full queue with the write lock of the
\* device state in its hands is released, and so is the lock, because the
\* player drains the queue on each tick without asking for that lock
C35_NothingBlocksForEver ==
    /\ []<>(queue = <<>> /\ \A src \in Sources : applied_n[src] = sent_n[src])
    /\ \A s \in Sessions : (pc[s] \in {"lock", "send"}) ~> (pc[s] = "read")
    /\ (sched.pc # "idle") ~> (sched.pc = "idle")
    /\ (rwlock # None) ~> (rwlock = None)
    /\ [][queue' # queue /\ Len(queue') <= Len(queue)
            => /\ queue' = <<>>
               /\ UNCHANGED <<rwlock, readers>>]_vars

\* the first session's SetLuminancePloy handler waits on the full queue
\* with the write lock, and the schedule task waits for the lock
C35_Witness ==
    /\ Len(queue) = QUEUE_CAPACITY
    /\ pc["s1"] = "send"
    /\ pending["s1"].method = "SetLuminancePloy"
    /\ rwlock = "s1"
    /\ sched.pc = "lock"
    /\ ~ENABLED HandlerSend("s1")

\* every handler has returned and the queue is drained
HandlersQuiet == queue = <<>> /\ \A s \in Sessions : pc[s] = "read"

AtRest ==
    /\ \A s \in Sessions : pc[s] \in {"read", "closed"}
    /\ sched.pc = "idle"
    /\ usb.pc = "idle"
    /\ rwlock = None
    /\ queue = <<>>

\* main, run again on the program directory as it is: what is not in the
\* directory starts as new
Restart ==
    /\ AtRest
    /\ boots < MaxRestarts
    /\ boots' = boots + 1
    /\ pc' = [s \in Sessions |-> "read"]
    /\ hdr' = [s \in Sessions |-> -1]
    /\ pending' = [s \in Sessions |-> NoPending]
    /\ replies' = [s \in Sessions |-> <<>>]
    /\ screen_schedule' = ScreenScheduleNew
    /\ brightness' = BrightnessNew
    /\ rwlock' = None
    /\ sched' = SchedNew
    /\ usb' = [pc |-> "idle", last_seen |-> FALSE]
    /\ sent_n' = [src \in Sources |-> 0]
    /\ applied_n' = [src \in Sources |-> 0]
    /\ c7' = NoC7
    /\ \E order \in DirOrders :
          player' = load_programs(PlayerNew, DirPrograms(storage, order))
    /\ queue' = <<>>
    /\ drained' = <<>>
    /\ after_drain' = player'
    /\ last_render' = NoRender
    /\ UNCHANGED <<storage, ops>>
    /\ BootOnly

NextRestart ==
    \/ \E s \in Sessions : Recv(s)
    \/ \E s \in Sessions : HandlerStore(s)
    \/ \E s \in Sessions : HandlerLock(s)
    \/ \E s \in Sessions : HandlerSend(s)
    \/ SchedRead
    \/ SchedLock
    \/ SchedSend
    \/ UsbCopy
    \/ UsbSend
    \/ DevTick
    \/ Restart

SpecRestart == Init /\ [][NextRestart]_vars

\* the programs of current_program.xml, none where it is missing or does
\* not parse
CurrentPrograms(dir) ==
    LET r == parse_program_file(dir["current_program.xml"])
    IN  IF r.ok THEN r.programs ELSE <<>>

\* C23: after a restart that follows any sequence of accepted commands,
\* file uploads and removable-media loads, the active program list equals
\* the programs of the last accepted screen XML, which is the content of
\* current_program.xml, and is empty when the last program command was
\* DeleteProgram: the list the player had when all it was sent was applied
C23_RestartRestores ==
    [][boots' = boots + 1
       => /\ player'.programs = player.programs
          /\ player'.programs = CurrentPrograms(storage)]_vars

\* a restart with the program of a removable medium copied next to
\* current_program.xml: the list holds the programs of both files
C23_BothFiles ==
    /\ boots = 1
    /\ storage["current_program.xml"] = XmlScreenB
    /\ storage["program.xml"] = XmlScreenB
    /\ Len(player.programs) = 2
    /\ sent_n["usb"] = 0

\* ------------------------------------------------------------- SpecLock
\* The device with two sessions whose handlers store, clear and delete
\* while others take write access; a storing arm is followed from the
\* moment it has read access to the moment it drops it.
LockPacketsFirst ==
    { SdkRequest("AddProgram", XmlScreenA, 0, <<>>),
      SdkRequest("DeleteFiles", <<>>, 0, <<"logo.png">>),
      SdkRequest("SetSwitchTime", <<>>, 0, <<SwitchEntry(8, 20, {})>>) }

LockPacketsSecond ==
    { SdkRequest("UpdateProgram", XmlScreenB, 0, <<>>),
      SdkRequest("DeleteProgram", <<>>, 0, <<>>),
      SdkRequest("SetLuminancePloy", <<>>, 200, <<>>) }

LockPackets(s) == IF s = "s1" THEN LockPacketsFirst ELSE LockPacketsSecond

RecvLock(s) == RecvWithin(s, LockPackets(s), MaxOps)

NextLock ==
    \/ \E s \in Sessions : RecvLock(s)
    \/ \E s \in Sessions : StoreBegin(s)
    \/ \E s \in Sessions : StoreEnd(s)
    \/ \E s \in Sessions : HandlerLock(s)
    \/ \E s \in Sessions : HandlerSend(s)
    \/ DevTick

SpecLock == Init /\ [][NextLock]_vars

\* the sessions whose handler is in a storage operation
Storing == {s \in Sessions : pc[s] = "storing"}

\* C24: every storage mutation made by an SDK handler (save_program, clear,
\* delete_file) is made while holding write access to the device state, so
\* that the storage mutations of two sessions never overlap, and read
\* access is held only by queries
C24_StorageUnderWrite ==
    /\ \A s \in Storing : rwlock = s
    /\ Cardinality(Storing) <= 1
    /\ readers \cap Storing = {}

\* two sessions in a storage operation at once, both with read access
C24_Overlap ==
    /\ Storing = Sessions
    /\ readers = Sessions
    /\ pending["s1"].method = "AddProgram"
    /\ pending["s2"].method = "DeleteProgram"

\* ------------------------------------------------------------ SpecColor
\* Colour strings put together from pieces: '#', pairs of hexadecimal
\* digits, pairs that are none, a signed digit, a lone digit, a letter of
\* two bytes, and the word "bogus".
ColorPieces ==
    { <<35>>, <<48, 48>>, <<70, 70>>, <<56, 48>>, <<90, 90>>, <<43, 70>>,
      <<48>>, <<195, 169>>, <<98, 111, 103, 117, 115>> }

ColorExtend ==
    /\ color.pieces < MaxPieces
    /\ \E piece \in ColorPieces :
          color' = [bytes |-> color.bytes \o piece, pieces |-> color.pieces + 1]
    /\ rgb' = NoRgb
    /\ ColorOnly

ColorParse ==
    /\ rgb = NoRgb
    /\ rgb' = parse_color(color.bytes)
    /\ UNCHANGED color
    /\ ColorOnly

ColorInit ==
    /\ ColorIdle
    /\ WatchIdle
    /\ BackIdle
    /\ SinkIdle
    /\ XmlIdle /\ FrameIdle /\ ConnIdle /\ AnsIdle /\ UdpIdle /\ EffectIdle
    /\ PlayerIdle /\ SvcIdle /\ DevIdle

NextColor == ColorExtend \/ ColorParse

SpecColor == ColorInit /\ [][NextColor]_vars

\* #RRGGBB: '#' and six hexadecimal digits
WellFormed(s) ==
    /\ Len(s) = 7
    /\ s[1] = 35
    /\ \A i \in 2..7 : to_digit(s[i]) >= 0

\* C25: parse_color maps every well-formed #RRGGBB string to its bytes
\* ("#00FF80" gives (0, 255, 128)) and every malformed input, also one of
\* six or more characters in which only some of the three pairs are not
\* hexadecimal, to (255, 0, 0)
C25_ParseColor ==
    rgb # NoRgb
    => IF WellFormed(color.bytes)
       THEN LET s == color.bytes
            IN  rgb = << 16 * to_digit(s[2]) + to_digit(s[3]),
                         16 * to_digit(s[4]) + to_digit(s[5]),
                         16 * to_digit(s[6]) + to_digit(s[7]) >>
       ELSE rgb = <<255, 0, 0>>

\* "#00ZZ80" gives (0, 0, 128)
C25_SomePairs ==
    color.bytes = <<35, 48, 48, 90, 90, 56, 48>> /\ rgb = <<0, 0, 128>>

\* "0", a letter of two bytes and "FF80": the slice [0..2) ends inside
\* the letter
C25_Panic ==
    color.bytes = <<48, 195, 169, 70, 70, 56, 48>> /\ rgb = Panicked

\* "#00FF80" gives (0, 255, 128) and "bogus" gives (255, 0, 0)
C25_Examples ==
    \/ color.bytes = <<35, 48, 48, 70, 70, 56, 48>> /\ rgb = <<0, 255, 128>>
    \/ color.bytes = <<98, 111, 103, 117, 115>> /\ rgb = <<255, 0, 0>>

\* ----------------------------------------------------------- SpecBeacon
\* The beacon with hosts that send it datagrams of any length the buffer
\* takes, and its three-second timer.
DatagramLens == {0, 1, 2, 3, BufLen}

\* select!: recv_from returns Ok((len, peer)); a probe is answered with
\* the DeviceInfo packet, and run sleeps 50 ms
BeaconRecv ==
    /\ u_pc = "select"
    /\ u_n < MaxDatagrams
    /\ \E len \in DatagramLens, peer \in Peers :
          /\ u_len' = len
          /\ u_peer' = peer
          /\ IF IsProbe(len)
             THEN \E ok \in BOOLEAN :
                    /\ u_log' = <<SendTo(dev_info_packet, peer, ok)>>
                    /\ u_pc' = "reply"
             ELSE /\ u_log' = <<>>
                  /\ u_pc' = "select"
    /\ u_n' = u_n + 1
    /\ UNCHANGED u_ticks
    /\ UdpOnly

\* select!: recv_from returns Err, which is logged
BeaconRecvErr ==
    /\ u_pc = "select"
    /\ u_len' = -1
    /\ u_peer' = None
    /\ u_log' = <<>>
    /\ UNCHANGED <<u_pc, u_n, u_ticks>>
    /\ UdpOnly

\* after the sleep: the Ext1 packet to the peer, and back to select!
BeaconReply ==
    /\ u_pc = "reply"
    /\ \E ok \in BOOLEAN :
          u_log' = Append(u_log, SendTo(ext1_packet, u_peer, ok))
    /\ u_pc' = "select"
    /\ UNCHANGED <<u_len, u_peer, u_n, u_ticks>>
    /\ UdpOnly

\* select!: broadcast_interval.tick(); the DeviceInfo packet to the
\* broadcast address, and run sleeps 50 ms
BeaconTick ==
    /\ u_pc = "select"
    /\ u_ticks < MaxBroadcasts
    /\ \E ok \in BOOLEAN :
          u_log' = <<SendTo(dev_info_packet, broadcast_addr, ok)>>
    /\ u_pc' = "broadcast"
    /\ u_len' = -1
    /\ u_peer' = None
    /\ u_ticks' = u_ticks + 1
    /\ UNCHANGED u_n
    /\ UdpOnly

\* after the sleep: the Ext1 packet to the broadcast address
BeaconBroadcast ==
    /\ u_pc = "broadcast"
    /\ \E ok \in BOOLEAN :
          u_log' = Append(u_log, SendTo(ext1_packet, broadcast_addr, ok))
    /\ u_pc' = "select"
    /\ UNCHANGED <<u_len, u_peer, u_n, u_ticks>>
    /\ UdpOnly

BeaconInit ==
    /\ UdpIdle
    /\ ColorIdle
    /\ WatchIdle
    /\ BackIdle
    /\ SinkIdle
    /\ XmlIdle /\ FrameIdle /\ ConnIdle /\ AnsIdle /\ EffectIdle /\ PlayerIdle
    /\ SvcIdle /\ DevIdle

NextBeacon ==
    \/ BeaconRecv
    \/ BeaconRecvErr
    \/ BeaconReply
    \/ BeaconTick
    \/ BeaconBroadcast

SpecBeacon == BeaconInit /\ [][NextBeacon]_vars

\* the send_to calls of log, but for their outcome
Calls(log) == [k \in 1..Len(log) |-> <<log[k].packet, log[k].to>>]

\* C22: for each datagram of length >= 2 received on the discovery port the
\* beacon makes, for that datagram's sender, exactly one send of the
\* DeviceInfo packet and then exactly one of the Ext1 packet; a datagram
\* shorter than 2 bytes elicits no reply; nothing else goes to a host
C22_ProbeAnswered ==
    /\ [](CASE u_pc = "reply" ->
                  /\ u_len >= 2
                  /\ Calls(u_log) = << <<dev_info_packet, u_peer>> >>
             [] u_pc = "select" /\ u_len >= 2 ->
                  Calls(u_log) = << <<dev_info_packet, u_peer>>,
                                    <<ext1_packet, u_peer>> >>
             [] u_pc = "select" /\ u_len \in {0, 1} -> u_log = <<>>
             [] OTHER -> \A k \in 1..Len(u_log) : u_log[k].to = broadcast_addr)
    /\ [][u_n' = u_n + 1 => /\ u_peer' \in Peers
                            /\ Len(u_log') = (IF u_len' >= 2 THEN 1 ELSE 0)]_vars
    /\ [][u_pc = "reply" => /\ u_pc' = "select"
                            /\ u_peer' = u_peer
                            /\ u_len' = u_len
                            /\ u_n' = u_n]_vars

\* the third datagram of a run, one that filled the buffer, has been
\* answered with both packets, though the first send_to returned Err
C22_Witness ==
    /\ u_pc = "select"
    /\ u_n = 3
    /\ u_len = BufLen
    /\ Len(u_log) = 2
    /\ ~u_log[1].ok

\* ------------------------------------------------------------- SpecEcho
\* The beacon alone on its network: no host sends it anything, and what it
\* sends to the broadcast address or to itself is delivered to its socket.

\* select!: recv_from returns a datagram of the beacon's own
EchoRecv ==
    /\ u_pc = "select"
    /\ u_n < MaxDatagrams
    /\ u_back # <<>>
    /\ LET len == Min(PacketLen(Head(u_back)), BufLen)
       IN  /\ u_len' = len
           /\ u_peer' = local_addr
           /\ IF IsProbe(len)
              THEN \E ok \in BOOLEAN :
                     /\ u_log' = <<SendTo(dev_info_packet, local_addr, ok)>>
                     /\ u_back' = ComesBack(Tail(u_back), u_log'[1])
                     /\ u_pc' = "reply"
              ELSE /\ u_log' = <<>>
                   /\ u_back' = Tail(u_back)
                   /\ u_pc' = "select"
    /\ u_n' = u_n + 1
    /\ UNCHANGED u_ticks
    /\ BackOnly

\* after the sleep: the Ext1 packet to the peer
EchoReply ==
    /\ u_pc = "reply"
    /\ \E ok \in BOOLEAN :
          /\ u_log' = Append(u_log, SendTo(ext1_packet, u_peer, ok))
          /\ u_back' = ComesBack(u_back, u_log'[Len(u_log')])
    /\ u_pc' = "select"
    /\ UNCHANGED <<u_len, u_peer, u_n, u_ticks>>
    /\ BackOnly

\* select!: broadcast_interval.tick()
EchoTick ==
    /\ u_pc = "select"
    /\ u_ticks < MaxBroadcasts
    /\ \E ok \in BOOLEAN :
          /\ u_log' = <<SendTo(dev_info_packet, broadcast_addr, ok)>>
          /\ u_back' = ComesBack(u_back, u_log'[1])
    /\ u_pc' = "broadcast"
    /\ u_len' = -1
    /\ u_peer' = None
    /\ u_ticks' = u_ticks + 1
    /\ UNCHANGED u_n
    /\ BackOnly

\* after the sleep: the Ext1 packet to the broadcast address
EchoBroadcast ==
    /\ u_pc = "broadcast"
    /\ \E ok \in BOOLEAN :
          /\ u_log' = Append(u_log, SendTo(ext1_packet, broadcast_addr, ok))
          /\ u_back' = ComesBack(u_back, u_log'[Len(u_log')])
    /\ u_pc' = "select"
    /\ UNCHANGED <<u_len, u_peer, u_n, u_ticks>>
    /\ BackOnly

NextEcho == EchoRecv \/ EchoReply \/ EchoTick \/ EchoBroadcast

SpecEcho == BeaconInit /\ [][NextEcho]_vars

\* C38: the beacon never replies to a datagram it sent itself: with no
\* probe from a host, and its own datagrams delivered back to its socket,
\* all it sends is one DeviceInfo and one Ext1 broadcast per tick
C38_OnlyBroadcasts ==
    /\ \A k \in 1..Len(u_log) : u_log[k].to = broadcast_addr
    /\ (u_pc = "select" /\ u_log # <<>>)
       => Calls(u_log) = << <<dev_info_packet, broadcast_addr>>,
                            <<ext1_packet, broadcast_addr>> >>

\* after one tick the beacon has answered itself and, its answers having
\* come back to it, has answered them in turn
C38_SelfReplied ==
    /\ u_ticks = 1
    /\ u_n = MaxDatagrams
    /\ u_pc = "select"
    /\ u_peer = local_addr
    /\ Calls(u_log) = << <<dev_info_packet, local_addr>>,
                         <<ext1_packet, local_addr>> >>
    /\ Len(u_back) >= 4

\* ------------------------------------------------------------ SpecSched
\* The device with clients that replace the screen schedule again and
\* again while the schedule task makes its rounds.
SchedPacketsFirst ==
    { SdkRequest("SetSwitchTime", <<>>, 0, <<SwitchEntry(8, 20, {})>>),
      SdkRequest("SetSwitchTime", <<>>, 0, <<SwitchEntry(6, 10, {})>>),
      SdkRequest("SetSwitchTime", <<>>, 0, <<>>) }

SchedPacketsSecond ==
    { SdkRequest("SetSwitchTime", <<>>, 0, <<SwitchEntry(6, 20, {"Tue"})>>),
      SdkRequest("CloseScreen", <<>>, 0, <<>>) }

SchedPackets(s) == IF s = "s1" THEN SchedPacketsFirst ELSE SchedPacketsSecond

RecvSched(s) == RecvWithin(s, SchedPackets(s), MaxSchedOps)

SchedReadOften == SchedReadWithin(MaxSchedOps)

NextSched ==
    \/ \E s \in Sessions : RecvSched(s)
    \/ \E s \in Sessions : HandlerLock(s)
    \/ \E s \in Sessions : HandlerSend(s)
    \/ SchedReadOften
    \/ SchedLock
    \/ SchedSend
    \/ DevTick

SpecSched == Init /\ [][NextSched]_vars

\* the schedule task sends a ScreenPower in this step
SchedEmits == sent_n'["schedule"] = sent_n["schedule"] + 1

\* C21 as the claim has it: the schedule task emits ScreenPower(v) only
\* when v differs from the value it emitted last, however its checks
\* interleave with the SetSwitchTime commands that replace the schedule
C21_EmitsOnChange ==
    [][SchedEmits => sched'.emitted # sched.emitted]_vars

\* C21: the schedule task emits ScreenPower(v) only when v differs from the
\* value it emitted last or set_schedule has replaced the schedule since it
\* emitted that value, however its checks interleave with the SetSwitchTime
\* commands; it emits what should_be_on gave at the start of the round
C21_EmitsOnChangeOrReplaced ==
    [][SchedEmits => /\ sched'.emitted = sched.should_on
                     /\ sched'.emitted \in {"on", "off"}
                     /\ sched'.emitted # sched.emitted \/ sched.replaced]_vars

\* the ScreenPower commands of the schedule task that wait in the queue
SchedQueued == FromSource(queue, "schedule")

\* the task has emitted a value and then the other one, the schedule as it
\* was, and both commands wait in the queue
C21_Witness ==
    /\ Len(SchedQueued) >= 2
    /\ SchedQueued[Len(SchedQueued)].on # SchedQueued[Len(SchedQueued) - 1].on
    /\ sched.emitted = (IF SchedQueued[Len(SchedQueued)].on THEN "on" ELSE "off")
    /\ ~sched.replaced
    /\ screen_schedule.last_state = sched.emitted

\* ------------------------------------------------------------ SpecReply
\* The device again, its sessions given any guids, with clients that send
\* AddProgram and UpdateProgram commands whose body parses or does not,
\* methods in another case, methods no arm matches, a document without a
\* method, and guid attributes of their own choosing.
ReplyPacketsFirst ==
    { SdkRequestOf("s", "AddProgram", XmlScreenA, 0, <<>>),
      SdkRequestOf("s", "AddProgram", XmlBroken, 0, <<>>),
      SdkRequestOf("s", "UpdateProgram", XmlBroken, 0, <<>>),
      SdkRequestOf("s", "updateProgram", XmlBroken, 0, <<>>),
      SdkRequestOf("s", "FooBar", XmlScreenA, 0, <<>>),
      SdkRequestOf("s", "ADDPROGRAM", XmlScreenA, 0, <<>>),
      SdkRequestOf("s", None, XmlScreenA, 0, <<>>),
      SdkRequestOf("s", "SetSwitchTime", <<>>, 0, <<SwitchEntry(8, 20, {})>>),
      Heartbeat }

ReplyPacketsSecond ==
    { SdkRequestOf("u1", "addProgram", XmlScreenB8, 0, <<>>),
      SdkRequestOf("u1", "Reboot", <<>>, 0, <<>>),
      RawHeader(1) }

ReplyPackets(s) == IF s = "s1" THEN ReplyPacketsFirst ELSE ReplyPacketsSecond

RecvReply(s) == RecvFrom(s, ReplyPackets(s))

ReplyInit == DeviceInit /\ session_guid \in [Sessions -> Guids]

NextReply ==
    \/ \E s \in Sessions : RecvReply(s)
    \/ \E s \in Sessions : HandlerStore(s)
    \/ \E s \in Sessions : HandlerLock(s)
    \/ \E s \in Sessions : HandlerSend(s)
    \/ DevTick

SpecReply == ReplyInit /\ [][NextReply]_vars

\* the replies written to the stream of session s
RepliesOf(s) == {replies[s][k] : k \in 1..Len(replies[s])}

\* the replies to SDK commands; a heartbeat's answer has no in_method
SdkReplies(s) == {r \in RepliesOf(s) : r.in_method # None}

\* C16: when the body of an AddProgram or an UpdateProgram command fails
\* to parse as screen XML, the reply carries result value="1" together
\* with an <error> child, and the connection stays open
C16_ParseErrorReply ==
    \A s \in Sessions : \A r \in SdkReplies(s) :
        (r.method \in {"AddProgram", "UpdateProgram"} /\ ~r.ok)
        => (r.result = 1 /\ r.error /\ pc[s] # "closed")

\* C17: an SDK command whose method is none of the recognized ones is
\* answered with result value="0" and the method as received in <out>;
\* its handling enqueues no player command and leaves brightness,
\* schedules, stored files and the program list as they were
C17_UnknownMethod ==
    [][\A s \in Sessions :
         (/\ Len(replies'[s]) = Len(replies[s]) + 1
          /\ replies'[s][Len(replies'[s])].in_method \notin Recognized \cup {None})
         => LET r == replies'[s][Len(replies'[s])]
            IN  /\ r.result = 0
                /\ r.method = r.in_method
                /\ ~r.error
                /\ r.enq = 0
                /\ pc[s] = "read"
                /\ pc'[s] = "read"
                /\ UNCHANGED <<queue, player, brightness, screen_schedule, storage>>]_vars

\* C30: when AddProgram or UpdateProgram carries XML that fails to parse,
\* the command is answered with result 1 and nothing else happens:
\* current_program.xml and every other stored file keep their contents,
\* no LoadScreen is enqueued, and the player's program list and cursor
\* stay as they were
C30_ParseFailureChangesNothing ==
    [][\A s \in Sessions :
         (/\ Len(replies'[s]) = Len(replies[s]) + 1
          /\ replies'[s][Len(replies'[s])].method \in {"AddProgram", "UpdateProgram"}
          /\ ~parse_program_xml(from_utf8_lossy(replies'[s][Len(replies'[s])].raw)).ok)
         => LET r == replies'[s][Len(replies'[s])]
            IN  /\ r.result = 1
                /\ r.enq = 0
                /\ ~r.stored
                /\ pc[s] = "read"
                /\ pc'[s] = "read"
                /\ storage' = storage
                /\ queue' = queue
                /\ sent_n' = sent_n
                /\ player' = player]_vars

\* a program was stored and is on show, and the UpdateProgram that came
\* next, its XML broken, was answered with result 1: the file and the list
\* are those of the first command
C30_Witness ==
    /\ Len(replies["s1"]) = 2
    /\ replies["s1"][1].method = "AddProgram"
    /\ replies["s1"][1].result = 0
    /\ replies["s1"][2].method = "UpdateProgram"
    /\ replies["s1"][2].raw = XmlBroken
    /\ replies["s1"][2].result = 1
    /\ storage["current_program.xml"] = XmlScreenA
    /\ player.programs = parse_program_xml(XmlScreenA).programs
    /\ player.programs # <<>>
    /\ queue = <<>>

C17_Witness ==
    \E r \in SdkReplies("s1") :
        r.in_method = "ADDPROGRAM" /\ r.method = "ADDPROGRAM" /\ r.result = 0

\* C19 as stated: the reply to an AddProgram request sent as <sdk guid="s">
\* is <sdk guid="s"><out method="AddProgram"><result value="0"/></out></sdk>:
\* its guid is the guid the client sent
C19_GuidEchoed ==
    \A s \in Sessions : \A r \in SdkReplies(s) :
        (r.method = "AddProgram" /\ r.result = 0)
        => (r.guid = r.req_guid /\ ~r.error)

\* C19, amended: the reply to an AddProgram request whose body parses is
\* <sdk guid="g"><out method="AddProgram"><result value="0"/></out></sdk>
\* where g is the guid the server drew for the session, whatever guid the
\* request carried; so it is in every SDK reply
C19_SessionGuid ==
    \A s \in Sessions : \A r \in SdkReplies(s) :
        /\ r.guid = session_guid[s]
        /\ (Arm(r.in_method) = "AddProgram" /\ r.ok)
           => (r.method = "AddProgram" /\ r.result = 0 /\ ~r.error)

C19_Witness ==
    \E r \in SdkReplies("s1") :
        /\ r.in_method = "AddProgram"
        /\ r.result = 0
        /\ r.req_guid = "s"
        /\ r.guid = session_guid["s1"]
        /\ r.guid # r.req_guid

\* ---- what the claims speak of
IsLoad(cmd) == cmd.kind = "LoadScreen"

HasLoad(q) == \E i \in 1..Len(q) : IsLoad(q[i])

LoadCount(q) == Len(SelectSeq(q, IsLoad))

\* the last LoadScreen among the commands q
LastLoad(q) ==
    q[CHOOSE i \in 1..Len(q) :
        IsLoad(q[i]) /\ \A j \in (i + 1)..Len(q) : ~IsLoad(q[j])]

\* the replies to AddProgram and UpdateProgram commands
ProgramReplies ==
    { r \in UNION { {replies[s][k] : k \in 1..Len(replies[s])} : s \in Sessions } :
        r.method \in {"AddProgram", "UpdateProgram"} }

\* the drain left the list of LoadScreen command c, the cursor at 0, and
\* the area states reset for the list's first program
LoadedBy(c) ==
    /\ after_drain.programs = c.programs
    /\ after_drain.current_program = 0
    /\ c.programs # <<>> => after_drain.area_states = ResetStates(c.programs[1])

C4_BadLengthCloses ==
    /\ [](\A s \in Sessions :
            (hdr[s] # -1 /\ (hdr[s] < 2 \/ hdr[s] > 9216)) => pc[s] = "closed")
    /\ [][\A s \in Sessions :
            /\ (hdr'[s] # hdr[s] /\ (hdr'[s] < 2 \/ hdr'[s] > 9216)) =>
                  /\ pc'[s] = "closed"
                  /\ replies' = replies
                  /\ pending' = pending
                  /\ storage' = storage
                  /\ brightness' = brightness
                  /\ screen_schedule' = screen_schedule
                  /\ rwlock' = rwlock
                  /\ queue' = queue
                  /\ sent_n' = sent_n
                  /\ player' = player
                  /\ \A t \in Sessions \ {s} : pc'[t] = pc[t] /\ hdr'[t] = hdr[t]
            /\ pc[s] = "closed" =>
                  /\ pc'[s] = "closed"
                  /\ hdr'[s] = hdr[s]
                  /\ replies'[s] = replies[s]
                  /\ pending'[s] = pending[s]
                  /\ sent_n'[s] = sent_n[s]]_vars

C4_Witness ==
    /\ pc["s1"] = "closed"
    /\ hdr["s1"] = 9217
    /\ replies["s1"] = <<>>
    /\ replies["s2"] # <<>>
    /\ queue # <<>>

\* the numbers of the commands of source src among q
SeqNumbers(q, src) ==
    [i \in 1..Len(FromSource(q, src)) |-> FromSource(q, src)[i].seq]

\* a, a + 1, .., b
Counting(a, b) == [i \in 1..(b - a + 1) |-> a + i - 1]

C6_AtMostOneLoadPerTick == LoadCount(drained) <= 1

\* C6, corrected: at a frame boundary the player takes every command that
\* waits in its queue and applies them in queue order, all pending
\* LoadScreen commands among them; the list that the frame after it shows
\* is that of the last LoadScreen taken.
C6_AllPendingLoadsTaken ==
    [][(drained' # drained \/ after_drain' # after_drain \/ player' # player) =>
          /\ drained' = queue
          /\ queue' = <<>>
          /\ LoadCount(drained') = LoadCount(queue)
          /\ after_drain' = DrainQueue(player, queue)
          /\ HasLoad(queue) =>
                /\ after_drain'.programs = LastLoad(queue).programs
                /\ player'.programs = LastLoad(queue).programs]_vars

C6_Witness ==
    /\ LoadCount(drained) >= 2
    /\ last_render.rendered
    /\ drained[1].programs # LastLoad(drained).programs
    /\ player.programs = LastLoad(drained).programs

\* the AddProgram and the DeleteProgram after it are done: both replied to,
\* both LoadScreen commands applied
C7Done == c7.stage = "del" /\ pc[c7.owner] = "read" /\ queue = <<>>

\* C7 as stated: AddProgram followed by DeleteProgram leaves the device
\* state as before the AddProgram: the files of the storage directory and
\* their contents, the active program list, brightness, schedules and the
\* screen-on flag.
C7_AsStated == C7Done => DevState = c7.pre

\* C7, corrected: AddProgram followed by DeleteProgram leaves brightness,
\* the schedules and the screen-on flag as before the AddProgram, the
\* active program list empty and, where clear removed every file it met,
\* the storage directory without regular files: media uploaded before and
\* a program persisted before are gone.  The device state equals the one
\* before the AddProgram only if that had no file and no program.
C7_AddThenDelete ==
    C7Done =>
        /\ player.programs = <<>>
        /\ brightness = c7.pre.brightness
        /\ screen_schedule.entries = c7.pre.schedules
        /\ player.screen_on = c7.pre.screen_on
        /\ c7.cleared =>
              /\ Existing(storage) = {}
              /\ DevState = c7.pre <=>
                    (Existing(c7.pre.files) = {} /\ c7.pre.programs = <<>>)

C7_Witness ==
    /\ C7Done
    /\ c7.cleared
    /\ c7.pre.files = StockedDir
    /\ c7.pre.programs = <<D3>>
    /\ DevState # c7.pre
    /\ Len(replies[c7.owner]) = 2

\* ------------------------------------------------------------- SpecUsb
\* The removable-media watcher alone: drives are mounted and removed between
\* its scans, every five seconds it scans and visits what it found, in the
\* order read_dir gave.

\* a drive is mounted, or removed, while the watcher sleeps
UsbMount ==
    /\ w_pc = "sleep"
    /\ \E path \in MountPaths \ w_present : w_present' = w_present \cup {path}
    /\ UNCHANGED <<w_pc, w_paths, w_todo, w_last_seen, w_loads, w_scans>>
    /\ WatchOnly

UsbRemove ==
    /\ w_pc = "sleep"
    /\ \E path \in w_present : w_present' = w_present \ {path}
    /\ UNCHANGED <<w_pc, w_paths, w_todo, w_last_seen, w_loads, w_scans>>
    /\ WatchOnly

\* run: interval.tick() and find_usb_program_paths
UsbScan ==
    /\ w_pc = "sleep"
    /\ w_scans < MaxScans
    /\ w_scans' = w_scans + 1
    /\ w_paths' = w_present
    /\ w_todo' = w_present
    /\ w_loads' = [path \in MountPaths |->
                     IF path \in w_present THEN w_loads[path] ELSE 0]
    /\ w_pc' = "loop"
    /\ UNCHANGED <<w_present, w_last_seen>>
    /\ WatchOnly

\* last_seen.as_ref() == Some(usb_path)
AlreadyProcessed(last_seen, usb_path) == last_seen = usb_path

\* run: one turn of the for loop; load_from_usb copies the files of the
\* drive and sends LoadScreen for the first XML file that parses, or fails
UsbVisit ==
    /\ w_pc = "loop"
    /\ \E usb_path \in w_todo :
          /\ w_todo' = w_todo \ {usb_path}
          /\ IF AlreadyProcessed(w_last_seen, usb_path)
             THEN UNCHANGED <<w_last_seen, w_loads>>
             ELSE IF Loadable(usb_path)
                  THEN /\ w_loads' = [w_loads EXCEPT ![usb_path] = @ + 1]
                       /\ w_last_seen' = usb_path
                  ELSE UNCHANGED <<w_last_seen, w_loads>>
    /\ UNCHANGED <<w_pc, w_present, w_paths, w_scans>>
    /\ WatchOnly

\* run: after the loop, usb_paths.is_empty() && last_seen.is_some()
UsbLoopEnd ==
    /\ w_pc = "loop"
    /\ w_todo = {}
    /\ w_last_seen' = IF w_paths = {} THEN None ELSE w_last_seen
    /\ w_pc' = "sleep"
    /\ UNCHANGED <<w_present, w_paths, w_todo, w_loads, w_scans>>
    /\ WatchOnly

UsbInit ==
    /\ WatchIdle
    /\ BackIdle
    /\ SinkIdle
    /\ XmlIdle /\ FrameIdle /\ ConnIdle /\ AnsIdle /\ UdpIdle /\ ColorIdle
    /\ EffectIdle /\ PlayerIdle /\ SvcIdle /\ DevIdle

NextUsb == UsbMount \/ UsbRemove \/ UsbScan \/ UsbVisit \/ UsbLoopEnd

SpecUsb == UsbInit /\ [][NextUsb]_vars

\* C29: while mount paths with loadable XML stay present, scan after scan,
\* the watcher copies and dispatches LoadScreen for each of them at most
\* once; a path is loaded again only after a scan that did not find it
C29_LoadedOnce ==
    \A path \in MountPaths : Loadable(path) => w_loads[path] <= 1

\* two drives stayed mounted through two scans, and the second scan loaded
\* both again
C29_BothAgain ==
    /\ w_scans = 2
    /\ w_pc = "sleep"
    /\ w_present = {"/mnt/usb/a", "/mnt/usb/b"}
    /\ w_loads["/mnt/usb/a"] = 2
    /\ w_loads["/mnt/usb/b"] = 2

\* one drive stayed mounted, another came and went: the drive that stayed
\* was loaded again
C29_OtherRemoved ==
    /\ w_pc = "sleep"
    /\ w_present = {"/mnt/usb/a"}
    /\ w_loads["/mnt/usb/a"] = 2
    /\ w_loads["/mnt/usb/b"] = 0
    /\ w_last_seen = "/mnt/usb/a"

====
